---- MODULE Spec2Model ----
(***************************************************************************)
(* A model of the per-connection orchestration layer of ztalk             *)
(* (src/backend/modules): the asyncio event loop the components run on,    *)
(* the EventBus, the ASRManager, the TTSManager and the Service.           *)
(*                                                                         *)
(* Scheduling.  Everything runs on one asyncio event loop.  `ready` is the *)
(* loop's FIFO of callbacks (call_soon order), `cur` the task that is      *)
(* running.  A task runs from one suspension point to the next without     *)
(* interruption; the model splits such a run into several steps of the     *)
(* running task (cur stays the same), and lets the environment (timers,    *)
(* the executor thread, the transport) act only between two runs.          *)
(* A coroutine awaited directly (await self.reset_tts()) does not suspend  *)
(* by itself; the suspension points are: await <task>, asyncio.sleep,      *)
(* Queue.get on an empty queue and loop.run_in_executor.                   *)
(*                                                                         *)
(* A task is named <<kind, k>>: the k-th task created for that coroutine.  *)
(* `published` holds the events passed to EventBus.publish by the step     *)
(* just taken (empty when the step published nothing).                     *)
(***************************************************************************)
EXTENDS Integers, Sequences, FiniteSets, TLC

\* ---------------------------------------------------------------- bounds
MaxEvents == 4      \* events the environment delivers in one run
MaxYields == 2      \* outputs the pipeline yields in one run, all calls together

\* ------------------------------------------------------------- constants
NoTask == << "none", 0 >>           \* None, where a task handle is expected
EmptyText == << >>                  \* ""
NoAudio == ""                       \* b""
\* the outputs (o.audio, o.text) a pipeline yields
PipelineOutputs ==
    { [audio |-> "pcm", text |-> <<"a">>], [audio |-> "pcm", text |-> << >>],
      [audio |-> "", text |-> <<"a">>] }
NoItem == [task_id |-> 0, audio_chunk |-> "", resp_text |-> << >>, is_final |-> FALSE]
\* no argument: the task is not an event handler
NoEvent ==
    [type |-> "none", task_id |-> 0, text |-> << >>, data |-> 0, is_final |-> FALSE,
     confidence |-> 0]

\* no TTSResponseUpdate has been published
NoUpdate == [task_id |-> 0, text |-> << >>]

\* handle_message_loop has not returned and has caught no exception
LoopRuns == [exit |-> "none", failed |-> 0]

\* The coroutines that run as tasks: the handlers of TTSManager, its generator,
\* consumer and TTSResponseFinish publication; the handlers of ASRManager and its
\* consumer; the callers of shutdown; the stop sequence of the Service; the
\* handlers of InputGateway; the callers of EventBus.publish, without (pub)
\* and with wait_for_completion (pub_wait), the task in which the bus
\* publishes an error event (pub_err) and the handlers of four subscribers
\* of the bus; the handlers of OutputGateway (out_send).
Kinds == { "tts_final", "tts_playback", "tts_shutdown", "tts_vad", "gen", "cons",
           "finish", "asr_frame", "asr_start", "asr_end", "asr_cons", "asr_shutdown",
           "svc_stop", "gw_msg", "gw_error", "pub", "pub_wait", "pub_err",
           "h_first", "h_second", "h_next", "h_error", "out_send", "msg_loop" }

VARIABLES
    ready,            \* the event loop's FIFO of runnable tasks (task names)
    cur,              \* the running task, NoTask between two callbacks
    tasks,            \* every task created so far: kind -> sequence of records
    getters,          \* tts_queue._getters: consumers blocked in get()
    handlers,         \* EventBus._handlers: event type -> subscribed handlers
    published,        \* the events the last step passed to EventBus.publish
    nEnv,             \* events delivered by the environment so far
    nYield,           \* outputs the pipeline has yielded so far
    lastTid,          \* the highest task_id of the TTS events published so far
    pauses,           \* TTSPaused events published for the turn in flight
    last_taken,       \* the frame the ASR consumers took last (its number)
    returned,         \* what the publish call that returned last has returned:
                      \* "True" or "False", "none" before the first call
    finished,         \* the task_ids of the TTSResponseFinish events published
    gen_ended,        \* the generators that ran to their end: << task_id, whether
                      \* resp_text was not empty, "stop" or "raised" >>
    sent,             \* the frames written to the websocket, in the order written
    last_update,      \* the TTSResponseUpdate published last: its task_id and text
    msg_loop,         \* InputGateway.handle_message_loop: how it was left (exit)
                      \* and the messages whose handling raised (failed)
    audio_buffer,     \* ASRManager.audio_buffer
    accumulated_text, \* ASRManager.accumulated_text
    asr_cache,        \* ASRManager.asr_cache: "empty", or "used" by the recognizer
    asr_consumer_task,\* ASRManager.consumer_task
    asr_running,      \* ASRManager.consumer_state.running
    last_call,        \* the latest recognize_stream call: made, is_final, raised, text
    segment,          \* "open" from a reset to the next VADSpeechEnd handler
    closed,           \* the message loop of the connection has returned
    shut,             \* the components whose shutdown() has returned
    gathered,         \* the handler tasks EventBus.shutdown waits for
    is_paused,        \* TTSManager.is_paused
    current_task_id,  \* TTSManager.current_task_id
    current_text,     \* TTSManager.current_text
    tts_gen_task,     \* TTSManager.tts_gen_task
    consumer_task,    \* TTSManager.consumer_task
    tts_running,      \* TTSManager.consumer_state.running
    tts_queue         \* TTSManager.tts_queue

ttsVars == << getters, is_paused, current_task_id, current_text, tts_gen_task,
              consumer_task, tts_running, tts_queue >>
outVars == << finished, gen_ended, sent, msg_loop >>
ghostVars == << lastTid, pauses, last_taken, returned, finished, gen_ended, sent,
               last_update, msg_loop >>
asrVars == << audio_buffer, accumulated_text, asr_cache, asr_consumer_task,
              asr_running, last_call, segment >>
svcVars == << closed, shut, gathered >>
vars == << ready, cur, tasks, getters, handlers, published, nEnv, nYield,
           lastTid, pauses, last_taken, returned, finished, gen_ended, sent, last_update,
           msg_loop,
           audio_buffer, accumulated_text, asr_cache,
           asr_consumer_task, asr_running, last_call, segment, closed, shut,
           gathered, is_paused,
           current_task_id, current_text, tts_gen_task, consumer_task,
           tts_running, tts_queue >>

\* ------------------------------------------------------- the event loop
RemoveFrom(s, x) == SelectSeq(s, LAMBDA y : y # x)

\* A new task object: scheduled (call_soon of its first step), not yet run.
NewTask(arg) ==
    [pc |-> "start", st |-> "ready", cancel |-> FALSE, waiters |-> << >>,
     arg |-> arg, tid |-> 0, txt |-> << >>, item |-> NoItem, timeout |-> FALSE,
     acc |-> 0, proc |-> 0, gather |-> { }]

\* What is kept of a finished task.
DoneTask ==
    [pc |-> "done", st |-> "done", cancel |-> FALSE, waiters |-> << >>,
     arg |-> NoEvent, tid |-> 0, txt |-> << >>, item |-> NoItem, timeout |-> FALSE,
     acc |-> 0, proc |-> 0, gather |-> { }]

\* The record of task t in the loop state L.
Task(L, t) == L.tasks[t[1]][t[2]]

\* The task t of the current state.
Me(t) == tasks[t[1]][t[2]]

SetTask(L, t, rec) == [L EXCEPT !.tasks[t[1]][t[2]] = rec]

\* task and not task.done()
Alive(t) == t # NoTask /\ Me(t).st # "done"

\* The tasks created so far for the coroutines of the given kinds.
TasksOf(kinds) == UNION { { << k, i >> : i \in DOMAIN tasks[k] } : k \in kinds }

\* The task the loop runs next: the running one, or the head of the FIFO.
Running(t) ==
    IF cur # NoTask THEN cur = t ELSE ready # << >> /\ Head(ready) = t

\* The FIFO once the running task has been taken from it.
Rest == IF cur # NoTask THEN ready ELSE Tail(ready)

\* The task the loop runs in the next step, if it runs one.
Actor == IF cur # NoTask THEN cur ELSE IF ready # << >> THEN Head(ready) ELSE NoTask

\* Between two callbacks: timers, executor results and transport input are
\* handed to the loop here.
Idle == cur = NoTask

\* L0: the loop as the running task finds it.
L0 == [tasks |-> tasks, ready |-> Rest]

\* asyncio.create_task(coro): the new task is appended to the FIFO.
Spawn(L, kind, arg) ==
    [tasks |-> [L.tasks EXCEPT ![kind] = Append(@, NewTask(arg))],
     ready |-> Append(L.ready, << kind, Len(L.tasks[kind]) + 1 >>)]

\* The task the next Spawn of that kind creates.
Spawned(L, kind) == << kind, Len(L.tasks[kind]) + 1 >>

\* task.cancel(): a task suspended on a future is woken with CancelledError;
\* a task already scheduled gets it when it next runs; a finished one ignores it.
Cancel(L, t) ==
    IF Task(L, t).st = "wait"
    THEN [tasks |-> [L.tasks EXCEPT ![t[1]][t[2]].st = "ready",
                                    ![t[1]][t[2]].cancel = TRUE],
          ready |-> Append(L.ready, t)]
    ELSE IF Task(L, t).st = "ready"
    THEN [L EXCEPT !.tasks[t[1]][t[2]].cancel = TRUE]
    ELSE L

\* await u, from task t: t is suspended until u is done and resumes at pc.
Await(L, t, u, pc) ==
    [L EXCEPT !.tasks[t[1]][t[2]].st = "wait", !.tasks[t[1]][t[2]].pc = pc,
              !.tasks[u[1]][u[2]].waiters = Append(@, t)]

\* Task t goes to pc and keeps running.
Goto(L, t, pc) == [L EXCEPT !.tasks[t[1]][t[2]].pc = pc]

\* The tasks ws become runnable.
RECURSIVE Wake(_, _)
Wake(ts, ws) ==
    IF ws = << >> THEN ts
    ELSE Wake([ts EXCEPT ![Head(ws)[1]][Head(ws)[2]].st = "ready"], Tail(ws))

\* The task that runs the stop sequence of the Service.
StopTask == << "svc_stop", 1 >>

\* asyncio.gather(*self._active_tasks) in _wait_for_all_handlers: the waiting
\* task is scheduled when the last of the gathered tasks is done.
GatherWake(L) ==
    IF /\ L.tasks["svc_stop"] # << >>
       /\ Task(L, StopTask).pc = "b_wait" /\ Task(L, StopTask).st = "wait"
       /\ \A u \in gathered : Task(L, u).st = "done"
    THEN [tasks |-> [L.tasks EXCEPT !["svc_stop"][1].st = "ready"],
          ready |-> Append(L.ready, StopTask)]
    ELSE L

\* asyncio.gather(*tasks) in publish with wait_for_completion: a caller is
\* scheduled when the last of the tasks it gathered is done.
RECURSIVE WakeCallers(_, _)
WakeCallers(L, k) ==
    IF k > Len(L.tasks["pub_wait"]) THEN L
    ELSE LET w == L.tasks["pub_wait"][k]
         IN  WakeCallers(
                IF /\ w.st = "wait" /\ w.pc = "p_wait"
                   /\ \A u \in w.gather : Task(L, u).st = "done"
                THEN [tasks |-> [L.tasks EXCEPT !["pub_wait"][k].st = "ready"],
                      ready |-> Append(L.ready, << "pub_wait", k >>)]
                ELSE L, k + 1)

\* Task t returns: the tasks awaiting it are scheduled in the order they
\* started to wait.
Finish(L, t) ==
    LET ws == Task(L, t).waiters
    IN  WakeCallers(
           GatherWake([tasks |-> Wake([L.tasks EXCEPT ![t[1]][t[2]] = DoneTask], ws),
                       ready |-> L.ready \o ws]), 1)

\* The running task goes on (Continue), or gives the loop back (Yield).
Continue(t, L) == /\ tasks' = L.tasks /\ ready' = L.ready /\ cur' = t
Yield(L) == /\ tasks' = L.tasks /\ ready' = L.ready /\ cur' = NoTask

\* ------------------------------------------------------------ the bus
EventTypes ==
    { "websocket.message_received", "audio.frame_received", "vad.speech_start",
      "vad.speech_end", "asr.result_partial", "asr.result_final", "tts.paused",
      "tts.response_update", "tts.response_finish", "tts.chunk_generated",
      "tts.playback_finished", "error.occurred" }

\* An event: its type and the fields the components read (EventFactory).
Event(type, task_id, text) ==
    [type |-> type, task_id |-> task_id, text |-> text, data |-> 0, is_final |-> FALSE,
     confidence |-> 0]

\* EventFactory.create_error
ErrorEvent(error_type, component) ==
    Event("error.occurred", 0, << error_type, component >>)

\* EventFactory.create_audio_frame_received: data is the number of bytes.
AudioFrameReceived(data, is_final) ==
    [type |-> "audio.frame_received", task_id |-> 0, text |-> << >>, data |-> data,
     is_final |-> is_final, confidence |-> 0]

\* mock_confidence = 0.85, in hundredths
MockConfidence == 85

\* A result event that carries only the latest increment of the text.
AsrResultIncrementOnly(text, is_final, confidence) ==
    [Event(IF is_final THEN "asr.result_final" ELSE "asr.result_partial", 0,
           IF text = << >> THEN text ELSE << text[Len(text)] >>)
        EXCEPT !.confidence = confidence]

\* EventFactory.create_asr_result(text, is_final, confidence)
AsrResult(text, is_final, confidence) ==
    [Event(IF is_final THEN "asr.result_final" ELSE "asr.result_partial", 0, text)
        EXCEPT !.confidence = confidence]

\* A publish that creates the handler tasks last subscriber first.
RECURSIVE SpawnHandlersReversed(_, _, _)
SpawnHandlersReversed(L, hs, ev) ==
    IF hs = << >> THEN L
    ELSE Spawn(SpawnHandlersReversed(L, Tail(hs), ev), Head(hs), ev)

\* EventBus.publish(event): one handler task per subscribed handler, in
\* subscription order; the publisher is not suspended.
RECURSIVE SpawnHandlers(_, _, _)
SpawnHandlers(L, hs, ev) ==
    IF hs = << >> THEN L
    ELSE SpawnHandlers(Spawn(L, Head(hs), ev), Tail(hs), ev)

Publish(L, ev) == SpawnHandlers(L, handlers[ev.type], ev)

RECURSIVE PublishAll(_, _)
PublishAll(L, evs) ==
    IF evs = << >> THEN L ELSE PublishAll(Publish(L, Head(evs)), Tail(evs))


\* audio_data = bytes(accumulated_audio[processed_bytes:]), the bytes a flush
\* hands to get_chunks and recognize_stream: bytes lo + 1 .. hi of
\* accumulated_audio.
AudioData(accumulated_audio, processed_bytes) ==
    [lo |-> processed_bytes, hi |-> accumulated_audio]

\* ASRManager.__init__
InitASRState ==
    /\ audio_buffer = << >> /\ accumulated_text = << >> /\ asr_cache = "empty"
    /\ asr_consumer_task = NoTask /\ asr_running = FALSE
    /\ last_call = [made |-> FALSE, is_final |-> FALSE, raised |-> FALSE, text |-> FALSE,
                    audio |-> AudioData(0, 0)]
    /\ segment = "none"

\* ------------------------------------------------------- TTSManager
\* TTSManager._setup_event_listeners
TTSSubscriptions ==
    [e \in EventTypes |->
        CASE e = "asr.result_final" -> << "tts_final" >>
          [] e = "tts.playback_finished" -> << "tts_playback" >>
          [] e = "vad.speech_start" -> << "tts_vad" >>
          [] OTHER -> << >>]

\* The coroutines that run reset_tts: _handle_asr_result_final,
\* _handle_tts_playback_finished and shutdown, which the stop sequence of the
\* Service awaits after ASRManager.shutdown.
ResetKinds == { "tts_final", "tts_playback", "tts_shutdown", "svc_stop" }

\* Where the coroutine of task t enters reset_tts.
ResetEntry(t) == IF t[1] = "svc_stop" THEN "t_start" ELSE "start"

\* str.endswith
EndsWith(s, suffix) ==
    /\ Len(suffix) <= Len(s)
    /\ SubSeq(s, Len(s) - Len(suffix) + 1, Len(s)) = suffix

\* A generator whose last item is not marked as terminal.
TTSQueueItemNotFinal(task_id, audio_chunk, resp_text, is_final) ==
    [task_id |-> task_id, audio_chunk |-> audio_chunk, resp_text |-> resp_text,
     is_final |-> FALSE]

\* TTSQueueItem(task_id=..., audio_chunk=..., resp_text=..., is_final=...)
TTSQueueItem(task_id, audio_chunk, resp_text, is_final) ==
    [task_id |-> task_id, audio_chunk |-> audio_chunk, resp_text |-> resp_text,
     is_final |-> is_final]

\* tts_queue.put(item) on an unbounded queue: never suspends; the first
\* consumer blocked in get() is woken.  The putting task then suspends or ends.
QueuePut(L, item) ==
    /\ tts_queue' = Append(tts_queue, item)
    /\ IF getters = << >>
       THEN /\ getters' = getters
            /\ Yield(L)
       ELSE /\ getters' = Tail(getters)
            /\ Yield([tasks |-> [L.tasks EXCEPT
                                   ![Head(getters)[1]][Head(getters)[2]].st = "ready"],
                      ready |-> Append(L.ready, Head(getters))])

\* reset_tts, first part: clear the flags and texts, cancel the generator
\* and wait for it.
ResetStart(t) ==
    /\ Running(t) /\ t[1] \in ResetKinds /\ Me(t).pc = ResetEntry(t)
    /\ is_paused' = FALSE
    /\ current_text' = EmptyText
    /\ IF Alive(tts_gen_task)
       THEN Yield(Await(Cancel(L0, tts_gen_task), t, tts_gen_task, "r_gen"))
       ELSE Continue(t, Goto(L0, t, "r_stop"))
    /\ published' = << >>
    /\ UNCHANGED << getters, handlers, nEnv, nYield, asrVars, svcVars, ghostVars, current_task_id,
                    tts_gen_task, consumer_task, tts_running, tts_queue >>

\* reset_tts, after the generator has ended: tts_gen_task = None.
ResetGenDone(t) ==
    /\ Running(t) /\ t[1] \in ResetKinds /\ Me(t).pc = "r_gen"
    /\ tts_gen_task' = NoTask
    /\ Continue(t, Goto(L0, t, "r_stop"))
    /\ published' = << >>
    /\ UNCHANGED << getters, handlers, nEnv, nYield, asrVars, svcVars, ghostVars, is_paused, current_task_id,
                    current_text, consumer_task, tts_running, tts_queue >>

\* _stop_consumer up to its await: running = False, cancel the consumer and
\* wait for it.
StopConsumer(t) ==
    /\ Running(t) /\ t[1] \in ResetKinds /\ Me(t).pc = "r_stop"
    /\ tts_running' = FALSE
    /\ IF Alive(consumer_task)
       THEN Yield(Await(Cancel(L0, consumer_task), t, consumer_task, "r_stopped"))
       ELSE Continue(t, Goto(L0, t, "r_stopped"))
    /\ published' = << >>
    /\ UNCHANGED << getters, handlers, nEnv, nYield, asrVars, svcVars, ghostVars, is_paused, current_task_id,
                    current_text, tts_gen_task, consumer_task, tts_queue >>

\* The rest of _stop_consumer and of reset_tts: consumer_task = None, the
\* queue is emptied, consumer_state is replaced by a fresh one.  The handler
\* of ASRResultFinal goes on; the other handler and shutdown return.
ResetFinish(t) ==
    /\ Running(t) /\ t[1] \in ResetKinds /\ Me(t).pc = "r_stopped"
    /\ consumer_task' = NoTask
    /\ tts_queue' = << >>
    /\ tts_running' = FALSE
    /\ IF t[1] = "tts_final"
       THEN Continue(t, Goto(L0, t, "bump"))
       ELSE IF t[1] = "svc_stop"
       THEN Continue(t, Goto(L0, t, "b_start"))
       ELSE Yield(Finish(L0, t))
    /\ shut' = IF t[1] \in { "tts_shutdown", "svc_stop" } THEN shut \cup { "tts" } ELSE shut
    /\ published' = << >>
    /\ UNCHANGED << getters, handlers, nEnv, nYield, asrVars, closed, gathered, ghostVars,
                    is_paused, current_task_id, current_text, tts_gen_task >>

\* A task id counter that wraps around: ids are reused.
GenerateTaskIdReused == (current_task_id % 2) + 1

\* _generate_task_id
GenerateTaskId == current_task_id + 1

\* _handle_asr_result_final after reset_tts: new task id (kept in the
\* handler's local task_id), cancel a generator that is still running and
\* wait for it.
BumpTaskId(t) ==
    /\ Running(t) /\ t[1] = "tts_final" /\ Me(t).pc = "bump"
    /\ current_task_id' = GenerateTaskId
    /\ LET L1 == SetTask(L0, t, [Me(t) EXCEPT !.tid = GenerateTaskId])
       IN  IF Alive(tts_gen_task)
           THEN Yield(Await(Cancel(L1, tts_gen_task), t, tts_gen_task, "spawn"))
           ELSE Continue(t, Goto(L1, t, "spawn"))
    /\ published' = << >>
    /\ pauses' = 0
    /\ UNCHANGED << last_taken, returned, last_update, outVars >>
    /\ UNCHANGED << getters, handlers, nEnv, nYield, asrVars, svcVars, lastTid, is_paused, current_text,
                    tts_gen_task, consumer_task, tts_running, tts_queue >>

\* generate_tts_from_text(self.asr_text) is called with the text only; the
\* model notes on the new task the task_id its handler has produced.
GeneratorOf(task_id) == [NoEvent EXCEPT !.task_id = task_id]

\* The end of _handle_asr_result_final: create the generator task, then
\* _start_consumer (nothing if a consumer is alive).
StartTurn(t) ==
    /\ Running(t) /\ t[1] = "tts_final" /\ Me(t).pc = "spawn"
    /\ LET L1 == Spawn(L0, "gen", GeneratorOf(Me(t).tid))
       IN  /\ tts_gen_task' = Spawned(L0, "gen")
           /\ IF Alive(consumer_task)
              THEN /\ UNCHANGED << consumer_task, tts_running >>
                   /\ Yield(Finish(L1, t))
              ELSE /\ consumer_task' = Spawned(L1, "cons")
                   /\ tts_running' = TRUE
                   /\ Yield(Finish(Spawn(L1, "cons", NoEvent), t))
    /\ published' = << >>
    /\ UNCHANGED << getters, handlers, nEnv, nYield, asrVars, svcVars, ghostVars, is_paused, current_task_id,
                    current_text, tts_queue >>

\* The highest task_id among m and the events evs.
RECURSIVE MaxTid(_, _)
MaxTid(evs, m) ==
    IF evs = << >> THEN m
    ELSE MaxTid(Tail(evs), IF Head(evs).task_id > m THEN Head(evs).task_id ELSE m)

\* A turn is in flight: its generator or its consumer has not ended.
TurnInFlight == Alive(tts_gen_task) \/ Alive(consumer_task)

\* A TTSPaused that carries nothing of the interrupted turn.
PausedEventBlank == Event("tts.paused", 0, EmptyText)

\* _publish_tts_pause: the event carries current_task_id and current_text.
PausedEvent == Event("tts.paused", current_task_id, current_text)

\* _handle_vad_speech_start: publish TTSPaused, then _pause_tts.  It has no
\* suspension point.
TTSVadSpeechStart(t) ==
    /\ Running(t) /\ t[1] = "tts_vad"
    /\ published' = << PausedEvent >>
    /\ Yield(Finish(Publish(L0, PausedEvent), t))
    /\ is_paused' = TRUE
    /\ lastTid' = MaxTid(published', lastTid)
    /\ UNCHANGED << last_taken, returned, last_update, outVars >>
    /\ pauses' = IF TurnInFlight THEN pauses + 1 ELSE pauses
    /\ UNCHANGED << getters, handlers, nEnv, nYield, asrVars, svcVars, current_task_id, current_text,
                    tts_gen_task, consumer_task, tts_running, tts_queue >>

\* generate_tts_from_text, first run: task_id = self.current_task_id, then
\* the first next() of the pipeline is handed to the executor.
GenStart(t) ==
    /\ Running(t) /\ t[1] = "gen" /\ Me(t).pc = "start"
    /\ ~Me(t).cancel
    /\ Yield(SetTask(L0, t, [Me(t) EXCEPT !.tid = current_task_id, !.pc = "exec",
                                         !.st = "wait"]))
    /\ published' = << >>
    /\ UNCHANGED << handlers, nEnv, nYield, asrVars, svcVars, ghostVars, ttsVars >>

\* CancelledError delivered to the generator (before its first run, or at
\* await run_in_executor): nothing is enqueued.
GenCancelled(t) ==
    /\ Running(t) /\ t[1] = "gen" /\ Me(t).cancel
    /\ Yield(Finish(L0, t))
    /\ published' = << >>
    /\ UNCHANGED << handlers, nEnv, nYield, asrVars, svcVars, ghostVars, ttsVars >>

\* The executor thread finishes safe_next(): the pipeline yielded an output.
ExecutorYields(t, audio, text) ==
    /\ Idle /\ t[1] = "gen" /\ Me(t).st = "wait"
    /\ nYield < MaxYields
    /\ nYield' = nYield + 1
    /\ tasks' = [tasks EXCEPT ![t[1]][t[2]] =
                    [@ EXCEPT !.st = "ready", !.pc = "next",
                              !.item = TTSQueueItem(0, audio, text, FALSE)]]
    /\ ready' = Append(ready, t)
    /\ published' = << >>
    /\ UNCHANGED << cur, handlers, nEnv, asrVars, svcVars, ghostVars, ttsVars >>

\* The executor thread finishes safe_next(): the pipeline ended
\* (StopIteration, how = "stop") or raised (how = "raised").
ExecutorEnds(t, how) ==
    /\ Idle /\ t[1] = "gen" /\ Me(t).st = "wait"
    /\ tasks' = [tasks EXCEPT ![t[1]][t[2]] = [@ EXCEPT !.st = "ready", !.pc = how]]
    /\ ready' = Append(ready, t)
    /\ published' = << >>
    /\ UNCHANGED << cur, handlers, nEnv, nYield, asrVars, svcVars, ghostVars, ttsVars >>

\* resp_text after an output with text new_text
NextRespText(resp_text, new_text) ==
    IF EndsWith(resp_text, new_text) THEN resp_text ELSE resp_text \o new_text

\* The generator takes an output: it extends resp_text, enqueues the item
\* and hands the next next() to the executor.
GenNext(t) ==
    /\ Running(t) /\ t[1] = "gen" /\ Me(t).pc = "next"
    /\ ~Me(t).cancel
    /\ LET resp == NextRespText(Me(t).txt, Me(t).item.resp_text)
       IN  QueuePut(SetTask(L0, t, [Me(t) EXCEPT !.txt = resp, !.item = NoItem,
                                                !.pc = "exec",
                                                !.st = "wait"]),
                    TTSQueueItem(Me(t).tid, Me(t).item.audio_chunk, resp, FALSE))
    /\ published' = << >>
    /\ UNCHANGED << handlers, nEnv, nYield, asrVars, svcVars, ghostVars, is_paused, current_task_id,
                    current_text, tts_gen_task, consumer_task, tts_running >>

\* The pipeline ended or raised (the inner except breaks out of the loop):
\* a terminal item is enqueued if resp_text is not empty.
GenStop(t) ==
    /\ Running(t) /\ t[1] = "gen" /\ Me(t).pc \in { "stop", "raised" }
    /\ ~Me(t).cancel
    /\ IF Me(t).txt # EmptyText
       THEN QueuePut(Finish(L0, t), TTSQueueItem(Me(t).tid, NoAudio, Me(t).txt, TRUE))
       ELSE /\ Yield(Finish(L0, t))
            /\ UNCHANGED << getters, tts_queue >>
    /\ published' = << >>
    /\ gen_ended' = gen_ended \cup { << Me(t).tid, Me(t).txt # EmptyText, Me(t).pc >> }
    /\ UNCHANGED << handlers, nEnv, nYield, asrVars, svcVars, lastTid, pauses, last_update, last_taken,
                    returned, finished, sent, msg_loop, is_paused, current_task_id,
                    current_text, tts_gen_task, consumer_task, tts_running >>

\* CancelledError delivered to the consumer: it leaves through its except
\* and finally clauses.
ConsCancelled(t) ==
    /\ Running(t) /\ t[1] = "cons" /\ Me(t).cancel
    /\ getters' = RemoveFrom(getters, t)
    /\ Yield(Finish(L0, t))
    /\ published' = << >>
    /\ UNCHANGED << handlers, nEnv, nYield, asrVars, svcVars, ghostVars, is_paused, current_task_id,
                    current_text, tts_gen_task, consumer_task, tts_running, tts_queue >>

\* if self.is_paused, at the top of the consumer's loop
ConsumerSeesPause == is_paused

\* _tts_consumer, top of the loop: leave when not running; sleep 50 ms when
\* paused; else take an item, waiting up to 100 ms when the queue is empty.
\* A consumer woken inside get() takes the item, or goes back to the top of
\* the loop when the wait timed out.
ConsLoop(t) ==
    /\ Running(t) /\ t[1] = "cons" /\ ~Me(t).cancel
    /\ Me(t).pc \in { "start", "loop", "sleep", "get" }
    /\ IF Me(t).pc = "get" /\ Me(t).timeout
       THEN /\ Continue(t, SetTask(L0, t, [Me(t) EXCEPT !.pc = "loop", !.timeout = FALSE]))
            /\ UNCHANGED << getters, tts_queue >>
       ELSE IF Me(t).pc # "get" /\ ~tts_running
       THEN /\ Yield(Finish(L0, t))
            /\ UNCHANGED << getters, tts_queue >>
       ELSE IF Me(t).pc # "get" /\ ConsumerSeesPause
       THEN /\ Yield(SetTask(L0, t, [Me(t) EXCEPT !.pc = "sleep", !.st = "wait"]))
            /\ UNCHANGED << getters, tts_queue >>
       ELSE IF tts_queue = << >>
       THEN /\ Yield(SetTask(L0, t, [Me(t) EXCEPT !.pc = "get", !.st = "wait"]))
            /\ getters' = Append(getters, t)
            /\ UNCHANGED tts_queue
       ELSE /\ Continue(t, SetTask(L0, t, [Me(t) EXCEPT !.pc = "item",
                                                       !.item = Head(tts_queue)]))
            /\ tts_queue' = Tail(tts_queue)
            /\ UNCHANGED getters
    /\ published' = << >>
    /\ UNCHANGED << handlers, nEnv, nYield, asrVars, svcVars, ghostVars, is_paused, current_task_id,
                    current_text, tts_gen_task, consumer_task, tts_running >>

\* A consumer without the task-id check: no item is ever taken for stale.
IsStaleNever(item) == FALSE

\* if item.task_id != self.current_task_id
IsStale(item) == item.task_id # current_task_id

\* A consumer that publishes the text of an item before its audio.
ItemEventsUpdateFirst(item, last_sent_text) ==
    (IF item.resp_text # last_sent_text
     THEN << Event("tts.response_update", current_task_id, item.resp_text) >>
     ELSE << >>)
    \o
    (IF item.audio_chunk # NoAudio
     THEN << Event("tts.chunk_generated", item.task_id, item.resp_text) >>
     ELSE << >>)

\* The events the consumer publishes for an item: TTSChunkGenerated when it
\* carries audio, TTSResponseUpdate (with self.current_task_id) when its text
\* differs from the last text sent.
ItemEvents(item, last_sent_text) ==
    (IF item.audio_chunk # NoAudio
     THEN << Event("tts.chunk_generated", item.task_id, item.resp_text) >>
     ELSE << >>)
    \o
    (IF item.resp_text # last_sent_text
     THEN << Event("tts.response_update", current_task_id, item.resp_text) >>
     ELSE << >>)

\* The consumer handles the item it took: a stale one is dropped; for a
\* current one it publishes the events, then await asyncio.sleep(0).
ConsItem(t) ==
    /\ Running(t) /\ t[1] = "cons" /\ Me(t).pc = "item"
    /\ LET item == Me(t).item
           evs == ItemEvents(item, Me(t).txt)
       IN  IF IsStale(item)
           THEN /\ Continue(t, SetTask(L0, t, [Me(t) EXCEPT !.pc = "loop", !.item = NoItem]))
                /\ published' = << >>
                /\ UNCHANGED current_text
           ELSE /\ published' = evs
                /\ current_text' = IF item.resp_text # Me(t).txt
                                   THEN item.resp_text ELSE current_text
                /\ LET L1 == PublishAll(L0, evs)
                   IN  Yield([tasks |-> [L1.tasks EXCEPT ![t[1]][t[2]].pc = "after",
                                                         ![t[1]][t[2]].txt = item.resp_text],
                              ready |-> Append(L1.ready, t)])
    /\ lastTid' = MaxTid(published', lastTid)
    /\ last_update' =
          IF \E i \in 1 .. Len(published') : published'[i].type = "tts.response_update"
          THEN [task_id |-> current_task_id, text |-> Me(t).item.resp_text]
          ELSE last_update
    /\ UNCHANGED << last_taken, returned, outVars >>
    /\ UNCHANGED << getters, handlers, nEnv, nYield, asrVars, svcVars, pauses, is_paused, current_task_id,
                    tts_gen_task, consumer_task, tts_running, tts_queue >>

\* After sleep(0): for a terminal item a task that publishes
\* TTSResponseFinish is created (and not awaited); then the loop goes on.
ConsAfter(t) ==
    /\ Running(t) /\ t[1] = "cons" /\ Me(t).pc = "after"
    /\ ~Me(t).cancel
    /\ LET item == Me(t).item
           L1 == SetTask(L0, t, [Me(t) EXCEPT !.pc = "loop", !.item = NoItem])
       IN  Continue(t, IF item.is_final
                       THEN Spawn(L1, "finish", Event("tts.response_finish", item.task_id,
                                                        item.resp_text))
                       ELSE L1)
    /\ published' = << >>
    /\ UNCHANGED << handlers, nEnv, nYield, asrVars, svcVars, ghostVars, ttsVars >>

\* _publish_tts_finished, run as a task of its own.
PublishFinished(t) ==
    /\ Running(t) /\ t[1] = "finish"
    /\ published' = << Me(t).arg >>
    /\ Yield(Finish(Publish(L0, Me(t).arg), t))
    /\ lastTid' = MaxTid(published', lastTid)
    /\ finished' = Append(finished, Me(t).arg.task_id)
    /\ UNCHANGED << last_taken, returned, gen_ended, sent, msg_loop >>
    /\ UNCHANGED << handlers, nEnv, nYield, asrVars, svcVars, pauses, last_update, ttsVars >>

\* A consumer whose get() has no timeout: only the sleep of a paused
\* consumer ends.
TimerFiresSleepOnly(t) ==
    /\ Idle /\ ready = << >>
    /\ t[1] = "cons" /\ Me(t).st = "wait"
    /\ Me(t).pc = "sleep"
    /\ tasks' = [tasks EXCEPT ![t[1]][t[2]] = [@ EXCEPT !.st = "ready", !.timeout = FALSE]]
    /\ ready' = Append(ready, t)
    /\ getters' = RemoveFrom(getters, t)
    /\ published' = << >>
    /\ UNCHANGED << cur, handlers, nEnv, nYield, asrVars, svcVars, ghostVars, is_paused, current_task_id,
                    current_text, tts_gen_task, consumer_task, tts_running, tts_queue >>

\* A timer of the loop fires: the 50 ms sleep of a paused consumer ends, or
\* the 100 ms timeout of its get() expires.  Timers run for milliseconds and
\* callbacks for microseconds: a timer fires on a loop with nothing to run.
TimerFires(t) ==
    /\ Idle /\ ready = << >>
    /\ t[1] = "cons" /\ Me(t).st = "wait"
    /\ Me(t).pc \in { "sleep", "get" }
    /\ tasks' = [tasks EXCEPT ![t[1]][t[2]] =
                    [@ EXCEPT !.st = "ready", !.timeout = (Me(t).pc = "get")]]
    /\ ready' = Append(ready, t)
    /\ getters' = RemoveFrom(getters, t)
    /\ published' = << >>
    /\ UNCHANGED << cur, handlers, nEnv, nYield, asrVars, svcVars, ghostVars, is_paused, current_task_id,
                    current_text, tts_gen_task, consumer_task, tts_running, tts_queue >>

\* ----------------------------------------------------- the environment
\* Events reach the bus from outside the modelled components: evs are
\* published in one callback, as long as fewer than max deliveries were made.
EnvPublish(evs, max) ==
    /\ Idle /\ nEnv < max
    /\ nEnv' = nEnv + 1
    /\ published' = evs
    /\ LET L1 == PublishAll([tasks |-> tasks, ready |-> ready], evs)
       IN  /\ tasks' = L1.tasks
           /\ ready' = L1.ready
    /\ UNCHANGED << cur, handlers, nYield, asrVars, svcVars, ghostVars, ttsVars >>

ASRResultFinal == Event("asr.result_final", 0, <<"a">>)
VADSpeechStart == Event("vad.speech_start", 0, EmptyText)
VADSpeechEnd == Event("vad.speech_end", 0, EmptyText)
TTSPlaybackFinished == Event("tts.playback_finished", 0, EmptyText)

\* The loop runs the next step of a task of the TTSManager.
TTSStep ==
    \/ ResetStart(Actor) \/ ResetGenDone(Actor) \/ StopConsumer(Actor)
    \/ ResetFinish(Actor) \/ BumpTaskId(Actor) \/ StartTurn(Actor)
    \/ TTSVadSpeechStart(Actor)
    \/ GenStart(Actor) \/ GenCancelled(Actor) \/ GenNext(Actor) \/ GenStop(Actor)
    \/ ConsCancelled(Actor) \/ ConsLoop(Actor) \/ ConsItem(Actor) \/ ConsAfter(Actor)
    \/ PublishFinished(Actor)

InitTTS ==
    /\ ready = << >> /\ cur = NoTask /\ tasks = [k \in Kinds |-> << >>]
    /\ getters = << >>
    /\ handlers = TTSSubscriptions
    /\ published = << >> /\ nEnv = 0 /\ nYield = 0
    /\ lastTid = 0 /\ pauses = 0 /\ last_taken = 0 /\ returned = "none"
    /\ finished = << >> /\ gen_ended = { } /\ sent = << >> /\ msg_loop = LoopRuns
    /\ last_update = NoUpdate
    /\ InitASRState /\ closed = FALSE /\ shut = { } /\ gathered = { }
    /\ is_paused = FALSE /\ current_task_id = 0 /\ current_text = EmptyText
    /\ tts_gen_task = NoTask /\ consumer_task = NoTask /\ tts_running = FALSE
    /\ tts_queue = << >>

\* SpecTTS: the TTSManager with turns and barge-ins.  A barge-in takes one
\* turn and the VADSpeechStart events: one delivery fewer than the runs of
\* SpecTTSReset.
BargeInEvents == MaxEvents - 1

TTSEnv ==
    \/ \E t \in TasksOf({ "gen" }) :
        \/ \E o \in PipelineOutputs : ExecutorYields(t, o.audio, o.text)
        \/ ExecutorEnds(t, "stop")
        \/ ExecutorEnds(t, "raised")
    \/ \E t \in TasksOf({ "cons" }) : TimerFires(t)
    \/ EnvPublish(<< ASRResultFinal >>, BargeInEvents)
    \/ EnvPublish(<< VADSpeechStart >>, BargeInEvents)

NextTTS == TTSStep \/ TTSEnv

SpecTTS == InitTTS /\ [][NextTTS]_vars

\* The consumers one run of SpecTTS can create: one for each turn.
MaxConsumers == BargeInEvents

\* The timer of the k-th consumer fires.
ConsTimer(k) == k \in DOMAIN tasks["cons"] /\ TimerFires(<< "cons", k >>)

\* SpecTTSLive: SpecTTS on a loop that runs every callback that is ready
\* and on which every timer that was set expires.  The loop handles the
\* timers that are due in each of its iterations, whatever else is ready:
\* a timer that can fire again and again does fire (strong fairness).
SpecTTSLive ==
    /\ InitTTS /\ [][NextTTS]_vars
    /\ WF_vars(TTSStep)
    /\ \A k \in 1..MaxConsumers : SF_vars(ConsTimer(k))

\* A caller awaits TTSManager.shutdown(): the coroutine runs as the caller's
\* task.  Nothing is delivered after it.
CallTTSShutdown ==
    /\ Idle /\ nEnv < MaxEvents
    /\ tasks["tts_shutdown"] = << >>
    /\ nEnv' = nEnv + 1
    /\ published' = << >>
    /\ LET L1 == Spawn([tasks |-> tasks, ready |-> ready], "tts_shutdown", NoEvent)
       IN  /\ tasks' = L1.tasks
           /\ ready' = L1.ready
    /\ UNCHANGED << cur, handlers, nYield, asrVars, svcVars, ghostVars, ttsVars >>

\* SpecTTSReset: the TTSManager with turns in quick succession, interleaved
\* with TTSPlaybackFinished events, barge-ins and a shutdown; the pipeline
\* yields outputs with audio and text.
TTSResetEnv ==
    \/ \E t \in TasksOf({ "gen" }) :
        \/ ExecutorYields(t, "pcm", <<"a">>)
        \/ ExecutorEnds(t, "stop")
    \/ \E t \in TasksOf({ "cons" }) : TimerFires(t)
    \/ tasks["tts_shutdown"] = << >> /\ EnvPublish(<< ASRResultFinal >>, MaxEvents)
    \/ tasks["tts_shutdown"] = << >> /\ EnvPublish(<< VADSpeechStart >>, MaxEvents)
    \/ tasks["tts_shutdown"] = << >> /\ EnvPublish(<< TTSPlaybackFinished >>, MaxEvents)
    \/ CallTTSShutdown

NextTTSReset == TTSStep \/ TTSResetEnv

SpecTTSReset == InitTTS /\ [][NextTTSReset]_vars

\* SpecTurns: the TTSManager under turns only, one more than in SpecTTSReset:
\* ASRResultFinal events in quick succession, each pipeline yielding outputs
\* with audio and text.  No barge-in, no TTSPlaybackFinished, no shutdown.
TurnEvents == MaxEvents + 1

TurnsStep ==
    \/ ResetStart(Actor) \/ ResetGenDone(Actor) \/ StopConsumer(Actor)
    \/ ResetFinish(Actor) \/ BumpTaskId(Actor) \/ StartTurn(Actor)
    \/ GenStart(Actor) \/ GenCancelled(Actor) \/ GenNext(Actor) \/ GenStop(Actor)
    \/ ConsCancelled(Actor) \/ ConsLoop(Actor) \/ ConsItem(Actor) \/ ConsAfter(Actor)
    \/ PublishFinished(Actor)

TurnsEnv ==
    \/ \E t \in TasksOf({ "gen" }) :
        \/ ExecutorYields(t, "pcm", <<"a">>)
        \/ ExecutorEnds(t, "stop")
    \/ \E t \in TasksOf({ "cons" }) : TimerFires(t)
    \/ EnvPublish(<< ASRResultFinal >>, TurnEvents)

NextTurns == TurnsStep \/ TurnsEnv

SpecTurns == InitTTS /\ [][NextTurns]_vars

\* ------------------------------------------------------- ASRManager
\* self.chunk_bytes = int(chunk_secs * sample_rate * 2), scaled down: one
\* recognizer chunk is two bytes of the model.
ChunkBytes == 2

\* deque(maxlen=1000)
AudioBufferMaxLen == 1000

\* len(audio_data) of the frames a client sends
FrameBytes == { 1, 2 }

\* What one flush gets from the recognizer: a text increment, no text, or an
\* exception out of recognize_stream.
RecognizerOutcomes == { "text", "none", "raised" }

\* ASRManager._setup_event_listeners
ASRSubscriptions ==
    [e \in EventTypes |->
        CASE e = "audio.frame_received" -> << "asr_frame" >>
          [] e = "vad.speech_start" -> << "asr_start" >>
          [] e = "vad.speech_end" -> << "asr_end" >>
          [] OTHER -> << >>]

\* The coroutines that run _reset_asr: _handle_vad_speech_start and
\* shutdown, which the stop sequence of the Service awaits first.
AsrResetKinds == { "asr_start", "asr_shutdown", "svc_stop" }

\* An append that keeps a full buffer as it is: the new frame is lost.
BufferAppendDropNewest(buf, frame) ==
    IF Len(buf) >= AudioBufferMaxLen THEN buf ELSE Append(buf, frame)

\* audio_buffer.append on a deque with maxlen: the oldest frame is dropped
\* when the deque is full.
BufferAppend(buf, frame) ==
    IF Len(buf) >= AudioBufferMaxLen THEN Append(Tail(buf), frame)
    ELSE Append(buf, frame)

\* _handle_audio_frame: the frame is appended to audio_buffer (the lock is
\* never held across a suspension, so acquiring it does not suspend).  seg
\* notes whether a segment was open when it was appended, seq the number of
\* the frame: it is the seq-th AudioFrameReceived event published.
AsrHandleAudioFrame(t) ==
    /\ Running(t) /\ t[1] = "asr_frame"
    /\ audio_buffer' = BufferAppend(audio_buffer,
                          [data |-> Me(t).arg.data, is_final |-> Me(t).arg.is_final,
                           seg |-> segment = "open", seq |-> t[2]])
    /\ Yield(Finish(L0, t))
    /\ published' = << >>
    /\ UNCHANGED << handlers, nEnv, nYield, svcVars, ghostVars, ttsVars,
                    accumulated_text, asr_cache, asr_consumer_task, asr_running,
                    last_call, segment >>

\* _stop_consumer up to its await, as _reset_asr and _handle_vad_speech_end
\* call it first: running = False, cancel the consumer and wait for it.
AsrStopConsumer(t) ==
    /\ Running(t) /\ t[1] \in AsrResetKinds \cup { "asr_end" } /\ Me(t).pc = "start"
    /\ asr_running' = FALSE
    /\ segment' = IF t[1] = "asr_end" /\ segment = "open" THEN "ending" ELSE segment
    /\ IF Alive(asr_consumer_task)
       THEN Yield(Await(Cancel(L0, asr_consumer_task), t, asr_consumer_task, "a_stopped"))
       ELSE Continue(t, Goto(L0, t, "a_stopped"))
    /\ published' = << >>
    /\ UNCHANGED << handlers, nEnv, nYield, svcVars, ghostVars, ttsVars,
                    audio_buffer, accumulated_text, asr_cache, asr_consumer_task,
                    last_call >>

\* A handler of VADSpeechEnd that publishes nothing.
FinishAsrProcessingSilent == << >>

\* _finish_asr_processing: the events it publishes (strip() changes nothing
\* in a text of recognizer tokens).  confidence_sum / max(chunk_count, 1) is
\* the mock confidence when a flush has added text since the last reset.
FinishAsrProcessing ==
    << AsrResult(accumulated_text, TRUE,
                 IF accumulated_text = << >> THEN 0 ELSE MockConfidence) >>

\* The rest of _handle_vad_speech_end: consumer_task = None, then
\* _finish_asr_processing.
AsrHandleSpeechEnd(t) ==
    /\ Running(t) /\ t[1] = "asr_end" /\ Me(t).pc = "a_stopped"
    /\ asr_consumer_task' = NoTask
    /\ published' = FinishAsrProcessing
    /\ Yield(Finish(PublishAll(L0, FinishAsrProcessing), t))
    /\ UNCHANGED << handlers, nEnv, nYield, svcVars, ghostVars, ttsVars,
                    audio_buffer, accumulated_text, asr_cache, asr_running,
                    last_call, segment >>

\* The rest of _reset_asr: consumer_task = None, the texts, the cache and the
\* buffer are cleared, consumer_state is replaced.  _handle_vad_speech_start
\* then starts a consumer (consumer_task is None: _start_consumer always
\* creates one); shutdown returns.
AsrReset(t) ==
    /\ Running(t) /\ t[1] \in AsrResetKinds /\ Me(t).pc = "a_stopped"
    /\ accumulated_text' = << >>
    /\ asr_cache' = "empty"
    /\ audio_buffer' = << >>
    /\ IF t[1] = "asr_start"
       THEN /\ asr_consumer_task' = Spawned(L0, "asr_cons")
            /\ asr_running' = TRUE
            /\ segment' = "open"
            /\ Yield(Finish(Spawn(L0, "asr_cons", NoEvent), t))
            /\ UNCHANGED shut
       ELSE /\ asr_consumer_task' = NoTask
            /\ asr_running' = FALSE
            /\ segment' = "none"
            /\ shut' = shut \cup { "asr" }
            /\ IF t[1] = "svc_stop"
               THEN Continue(t, Goto(L0, t, "t_start"))
               ELSE Yield(Finish(L0, t))
    /\ published' = << >>
    /\ UNCHANGED << handlers, nEnv, nYield, closed, gathered, ghostVars, ttsVars,
                    last_call >>

\* CancelledError delivered to the consumer: a consumer that never ran just
\* ends; one that slept goes to its finally clause.
AsrConsCancelled(t) ==
    /\ Running(t) /\ t[1] = "asr_cons" /\ Me(t).cancel
    /\ Me(t).pc \in { "start", "sleep" }
    /\ IF Me(t).pc = "start"
       THEN Yield(Finish(L0, t))
       ELSE Continue(t, SetTask(L0, t, [Me(t) EXCEPT !.pc = "finally", !.cancel = FALSE]))
    /\ published' = << >>
    /\ UNCHANGED << handlers, nEnv, nYield, svcVars, ghostVars, ttsVars, asrVars >>

\* A consumer that flushes whenever bytes are left to process.
ShouldProcessAlways(frame, acc, proc) == acc > proc

\* should_process, for a frame just added to accumulated_audio
ShouldProcess(frame, acc, proc) ==
    /\ frame.is_final \/ acc - proc >= ChunkBytes
    /\ acc > proc

\* A consumer that takes the newest frame of the buffer.
BufferPop(buf) == [frame |-> buf[Len(buf)], rest |-> SubSeq(buf, 1, Len(buf) - 1)]

\* audio_buffer.popleft(): the oldest frame, and what is left.
BufferPopLeft(buf) == [frame |-> Head(buf), rest |-> Tail(buf)]

\* _asr_consumer, one turn of its loop: leave when not running; take a frame
\* and add it to accumulated_audio, or sleep 5 ms when the buffer is empty.
AsrConsLoop(t) ==
    /\ Running(t) /\ t[1] = "asr_cons" /\ ~Me(t).cancel
    /\ Me(t).pc \in { "start", "sleep", "loop" }
    /\ IF ~asr_running
       THEN /\ Continue(t, Goto(L0, t, "finally"))
            /\ UNCHANGED << audio_buffer, last_taken >>
       ELSE IF audio_buffer = << >>
       THEN /\ Yield(SetTask(L0, t, [Me(t) EXCEPT !.pc = "sleep", !.st = "wait"]))
            /\ UNCHANGED << audio_buffer, last_taken >>
       ELSE LET frame == BufferPopLeft(audio_buffer).frame
                acc == Me(t).acc + frame.data
            IN  /\ audio_buffer' = BufferPopLeft(audio_buffer).rest
                /\ last_taken' = frame.seq
                /\ Continue(t, SetTask(L0, t,
                      [Me(t) EXCEPT !.acc = acc,
                                    !.arg = AudioFrameReceived(frame.data, frame.is_final),
                                    !.pc = IF ShouldProcess(frame, acc, Me(t).proc)
                                           THEN "flush" ELSE "loop"]))
    /\ published' = << >>
    /\ UNCHANGED << handlers, nEnv, nYield, svcVars, lastTid, pauses, last_update, returned, outVars,
                    ttsVars, accumulated_text, asr_cache, asr_consumer_task, asr_running,
                    last_call, segment >>

\* A flush that never clears the cache.
CacheAfterFlushKept(is_final, outcome) == "used"

\* asr_cache after the recognize_stream calls of one flush: the recognizer
\* has used it; it is replaced by {} when is_final and no call raised.
CacheAfterFlush(is_final, outcome) ==
    IF is_final /\ outcome # "raised" THEN "empty" ELSE "used"

\* A flush that publishes the text it has so far as a final result.
FlushEventsFinal(outcome) == << Event("asr.result_final", 0, accumulated_text) >>

\* The events _process_accumulated_audio publishes.
FlushEvents(outcome) ==
    IF outcome = "text"
    THEN << AsrResult(Append(accumulated_text, "x"), FALSE, MockConfidence) >>
    ELSE << >>

\* _process_accumulated_audio in the loop, and what follows it: processed_bytes
\* moves on; an exception ends the loop with an error.occurred event.
AsrFlush(t, outcome) ==
    /\ Running(t) /\ t[1] = "asr_cons" /\ Me(t).pc = "flush"
    /\ LET is_final == Me(t).arg.is_final
           acc == Me(t).acc
           evs == IF outcome = "raised"
                  THEN << ErrorEvent("asr_consumer_error", "ASRManager") >>
                  ELSE FlushEvents(outcome)
       IN  /\ asr_cache' = CacheAfterFlush(is_final, outcome)
           /\ last_call' = [made |-> TRUE, is_final |-> is_final,
                            raised |-> outcome = "raised",
                            text |-> outcome = "text",
                            audio |-> AudioData(acc, Me(t).proc)]
           /\ accumulated_text' = IF outcome = "text" THEN Append(accumulated_text, "x")
                                  ELSE accumulated_text
           /\ published' = evs
           /\ Continue(t, SetTask(PublishAll(L0, evs), t,
                 [Me(t) EXCEPT !.pc = IF outcome = "raised" THEN "finally" ELSE "loop",
                               !.proc = IF outcome = "raised" THEN @
                                        ELSE IF is_final THEN acc
                                        ELSE acc - (acc % ChunkBytes)]))
    /\ UNCHANGED << handlers, nEnv, nYield, svcVars, ghostVars, ttsVars,
                    audio_buffer, asr_consumer_task, asr_running, segment >>

\* The finally clause of the consumer: bytes accumulated and not processed
\* are flushed with is_final=True; an exception of that flush is swallowed.
AsrFinally(t, outcome) ==
    /\ Running(t) /\ t[1] = "asr_cons" /\ Me(t).pc = "finally"
    /\ IF Me(t).acc > Me(t).proc
       THEN /\ asr_cache' = CacheAfterFlush(TRUE, outcome)
            /\ last_call' = [made |-> TRUE, is_final |-> TRUE,
                             raised |-> outcome = "raised",
                             text |-> outcome = "text",
                             audio |-> AudioData(Me(t).acc, Me(t).proc)]
            /\ accumulated_text' = IF outcome = "text" THEN Append(accumulated_text, "x")
                                   ELSE accumulated_text
            /\ published' = FlushEvents(outcome)
            /\ Yield(Finish(PublishAll(L0, FlushEvents(outcome)), t))
       ELSE /\ outcome = "none"
            /\ published' = << >>
            /\ Yield(Finish(L0, t))
            /\ UNCHANGED << asr_cache, last_call, accumulated_text >>
    /\ UNCHANGED << handlers, nEnv, nYield, svcVars, ghostVars, ttsVars,
                    audio_buffer, asr_consumer_task, asr_running, segment >>

\* The 5 ms sleep of a consumer that found the buffer empty ends.
AsrTimerFires(t) ==
    /\ Idle /\ ready = << >>
    /\ t[1] = "asr_cons" /\ Me(t).st = "wait" /\ Me(t).pc = "sleep"
    /\ tasks' = [tasks EXCEPT ![t[1]][t[2]].st = "ready"]
    /\ ready' = Append(ready, t)
    /\ published' = << >>
    /\ UNCHANGED << cur, handlers, nEnv, nYield, svcVars, ghostVars, ttsVars, asrVars >>

\* The loop runs the next step of a task of the ASRManager.
ASRStep ==
    \/ AsrHandleAudioFrame(Actor) \/ AsrStopConsumer(Actor)
    \/ AsrHandleSpeechEnd(Actor) \/ AsrReset(Actor)
    \/ AsrConsCancelled(Actor) \/ AsrConsLoop(Actor)
    \/ \E o \in RecognizerOutcomes : AsrFlush(Actor, o)
    \/ \E o \in RecognizerOutcomes : AsrFinally(Actor, o)

\* InputGateway._handle_vad_signal for vad_speech_end: VADSpeechEnd, then an
\* empty audio frame marked final.
SpeechEndSignal == << VADSpeechEnd, AudioFrameReceived(0, TRUE) >>

\* A caller awaits ASRManager.shutdown(): the coroutine runs as the caller's
\* task.  Nothing is delivered after it.
CallASRShutdown ==
    /\ Idle /\ nEnv < MaxEvents
    /\ tasks["asr_shutdown"] = << >>
    /\ nEnv' = nEnv + 1
    /\ published' = << >>
    /\ LET L1 == Spawn([tasks |-> tasks, ready |-> ready], "asr_shutdown", NoEvent)
       IN  /\ tasks' = L1.tasks
           /\ ready' = L1.ready
    /\ UNCHANGED << cur, handlers, nYield, asrVars, svcVars, ghostVars, ttsVars >>

\* SpecASR: the ASRManager under the events InputGateway publishes, and a
\* shutdown.
ASREnv ==
    \/ \E t \in TasksOf({ "asr_cons" }) : AsrTimerFires(t)
    \/ /\ tasks["asr_shutdown"] = << >>
       /\ \E n \in FrameBytes : EnvPublish(<< AudioFrameReceived(n, FALSE) >>, MaxEvents)
    \/ tasks["asr_shutdown"] = << >> /\ EnvPublish(<< VADSpeechStart >>, MaxEvents)
    \/ tasks["asr_shutdown"] = << >> /\ EnvPublish(SpeechEndSignal, MaxEvents)
    \/ CallASRShutdown

InitASR ==
    /\ ready = << >> /\ cur = NoTask /\ tasks = [k \in Kinds |-> << >>]
    /\ getters = << >>
    /\ handlers = ASRSubscriptions
    /\ published = << >> /\ nEnv = 0 /\ nYield = 0
    /\ lastTid = 0 /\ pauses = 0 /\ last_taken = 0 /\ returned = "none"
    /\ finished = << >> /\ gen_ended = { } /\ sent = << >> /\ msg_loop = LoopRuns
    /\ last_update = NoUpdate
    /\ InitASRState /\ closed = FALSE /\ shut = { } /\ gathered = { }
    /\ is_paused = FALSE /\ current_task_id = 0 /\ current_text = EmptyText
    /\ tts_gen_task = NoTask /\ consumer_task = NoTask /\ tts_running = FALSE
    /\ tts_queue = << >>

NextASR == ASRStep \/ ASREnv

SpecASR == InitASR /\ [][NextASR]_vars

\* SpecBuffer: frames arrive and no consumer runs (no VADSpeechStart was
\* received): more frames than the buffer holds, at most MaxEvents of them
\* waiting for their handler at a time.
BufferFrames == AudioBufferMaxLen + MaxEvents

BufferEnv ==
    /\ Len(ready) < MaxEvents
    /\ EnvPublish(<< AudioFrameReceived(1, FALSE) >>, BufferFrames)

NextBuffer == AsrHandleAudioFrame(Actor) \/ BufferEnv

SpecBuffer == InitASR /\ [][NextBuffer]_vars

\* ------------------------------------------------------ InputGateway
\* InputGateway._setup_event_listeners
GatewaySubscriptions ==
    [e \in EventTypes |->
        CASE e = "error.occurred" -> << "gw_error" >>
          [] e = "websocket.message_received" -> << "gw_msg" >>
          [] OTHER -> << >>]

\* A text message of the client: << action, type >> for a JSON object (""
\* for a key that is absent), << text >> for a text that is not JSON.
TextMessages ==
    { << "", "vad_speech_start" >>, << "", "vad_speech_end" >>,
      << "vad_speech_end", "ping" >>, << "ping", "vad_speech_end" >>,
      << "", "" >>, << "{" >> }

\* EventFactory.create_websocket_message_received
WebSocketMessageReceived(message) == Event("websocket.message_received", 0, message)

\* json.loads, then message_data.get("action") or message_data.get("type",
\* "unknown"); a JSONDecodeError is caught and nothing is done.
MessageType(message) ==
    IF Len(message) # 2 THEN "not json"
    ELSE IF message[1] # "" THEN message[1]
    ELSE IF message[2] # "" THEN message[2]
    ELSE "unknown"

\* A gateway that publishes VADSpeechEnd without the final frame.
VadSignalEventsNoFrame(message_type) ==
    CASE message_type = "vad_speech_start" -> << VADSpeechStart >>
      [] message_type = "vad_speech_end" -> << VADSpeechEnd >>
      [] OTHER -> << >>

\* _handle_vad_signal: the events it publishes, one after the other without
\* a suspension.  Other message types are logged.
VadSignalEvents(message_type) ==
    CASE message_type = "vad_speech_start" -> << VADSpeechStart >>
      [] message_type = "vad_speech_end" ->
            << VADSpeechEnd, AudioFrameReceived(0, TRUE) >>
      [] OTHER -> << >>

\* _handle_websocket_message_received, run as a handler task.
GwHandleMessage(t) ==
    /\ Running(t) /\ t[1] = "gw_msg"
    /\ LET evs == VadSignalEvents(MessageType(Me(t).arg.text))
       IN  /\ published' = evs
           /\ Yield(Finish(PublishAll(L0, evs), t))
    /\ UNCHANGED << handlers, nEnv, nYield, asrVars, svcVars, ghostVars, ttsVars >>

\* _handle_error_event: the error is logged.
GwHandleError(t) ==
    /\ Running(t) /\ t[1] = "gw_error"
    /\ published' = << >>
    /\ Yield(Finish(L0, t))
    /\ UNCHANGED << handlers, nEnv, nYield, asrVars, svcVars, ghostVars, ttsVars >>

GatewayStep == GwHandleMessage(Actor) \/ GwHandleError(Actor)

\* handle_message_loop: a text message is published as a
\* WebSocketMessageReceived event, a binary one as an AudioFrameReceived.
GatewayEnv ==
    \/ \E t \in TasksOf({ "asr_cons" }) : AsrTimerFires(t)
    \/ \E m \in TextMessages : EnvPublish(<< WebSocketMessageReceived(m) >>, MaxEvents)
    \/ \E n \in FrameBytes : EnvPublish(<< AudioFrameReceived(n, FALSE) >>, MaxEvents)

\* ASRManager subscribes before InputGateway (Service.__init__).
InitGateway ==
    /\ ready = << >> /\ cur = NoTask /\ tasks = [k \in Kinds |-> << >>]
    /\ getters = << >>
    /\ handlers = [e \in EventTypes |-> ASRSubscriptions[e] \o GatewaySubscriptions[e]]
    /\ published = << >> /\ nEnv = 0 /\ nYield = 0
    /\ lastTid = 0 /\ pauses = 0 /\ last_taken = 0 /\ returned = "none"
    /\ finished = << >> /\ gen_ended = { } /\ sent = << >> /\ msg_loop = LoopRuns
    /\ last_update = NoUpdate
    /\ InitASRState /\ closed = FALSE /\ shut = { } /\ gathered = { }
    /\ is_paused = FALSE /\ current_task_id = 0 /\ current_text = EmptyText
    /\ tts_gen_task = NoTask /\ consumer_task = NoTask /\ tts_running = FALSE
    /\ tts_queue = << >>

\* SpecGateway: the messages of a client go through InputGateway to the
\* ASRManager.
NextGateway == ASRStep \/ GatewayStep \/ GatewayEnv

SpecGateway == InitGateway /\ [][NextGateway]_vars

\* ---------------------------------------------------------- Service
\* Service.__init__: ASRManager subscribes before TTSManager.  The handlers
\* of OutputGateway write to the socket: they publish nothing, change nothing
\* in the managers, and are left out.
ServiceSubscriptions ==
    [e \in EventTypes |-> ASRSubscriptions[e] \o TTSSubscriptions[e]]

\* The components the stop sequence shuts down.
Components == { "asr", "tts", "bus" }

\* The coroutines EventBus.publish runs as tasks.
HandlerKinds ==
    { "asr_frame", "asr_start", "asr_end", "tts_final", "tts_playback", "tts_vad",
      "gw_msg", "gw_error" }

\* EventBus._active_tasks: the handler tasks that are not done.
ActiveTasks == { t \in TasksOf(HandlerKinds) : Me(t).st # "done" }

\* self._handlers.clear()
NoSubscriptions == [e \in EventTypes |-> << >>]

\* EventBus.shutdown after the two managers' shutdown: without active
\* handler tasks it clears the subscriptions and returns; else it waits for
\* the tasks that are active now.  (A handler waits only for tasks it has
\* cancelled, which end within a few callbacks: the 3 s timeout of the wait
\* does not expire.)
BusShutdownStart(t) ==
    /\ Running(t) /\ t[1] = "svc_stop" /\ Me(t).pc = "b_start"
    /\ IF ActiveTasks = { }
       THEN /\ handlers' = NoSubscriptions
            /\ shut' = shut \cup { "bus" }
            /\ Yield(Finish(L0, t))
            /\ UNCHANGED gathered
       ELSE /\ gathered' = ActiveTasks
            /\ Yield(SetTask(L0, t, [Me(t) EXCEPT !.pc = "b_wait", !.st = "wait"]))
            /\ UNCHANGED << handlers, shut >>
    /\ published' = << >>
    /\ UNCHANGED << nEnv, nYield, closed, asrVars, ghostVars, ttsVars >>

\* EventBus.shutdown once the gathered tasks are done: the subscriptions and
\* _active_tasks are cleared.
BusShutdownEnd(t) ==
    /\ Running(t) /\ t[1] = "svc_stop" /\ Me(t).pc = "b_wait"
    /\ handlers' = NoSubscriptions
    /\ shut' = shut \cup { "bus" }
    /\ gathered' = { }
    /\ Yield(Finish(L0, t))
    /\ published' = << >>
    /\ UNCHANGED << nEnv, nYield, closed, asrVars, ghostVars, ttsVars >>

\* ------------------------------------------------- the message loop
\* What `await self.websocket.receive()` gives handle_message_loop: a
\* message (text or binary), the disconnect message of the transport, or an
\* exception: WebSocketDisconnect, or any other (a read that failed).
ReceiveOutcomes == { "message", "disconnect_message", "WebSocketDisconnect", "error" }

\* The dict of a received message: text is << >> when it has no "text" key.
WsMessage(type, text, bytes) ==
    [type |-> type, task_id |-> 0, text |-> text, data |-> bytes, is_final |-> FALSE,
     confidence |-> 0]

\* The messages a client sends: the text messages, and binary frames.
WsMessages ==
    { WsMessage("websocket.receive", m, 0) : m \in TextMessages }
    \cup { WsMessage("websocket.receive", << >>, n) : n \in FrameBytes }

WsDisconnectMessage == WsMessage("websocket.disconnect", << >>, 0)

\* _process_message when nothing raises: a text message is published as
\* WebSocketMessageReceived (_handle_text_message, JSON or not), a binary one
\* as AudioFrameReceived with is_final=False; other dicts are ignored.
ProcessMessage(data) ==
    IF data.type # "websocket.receive" THEN << >>
    ELSE IF data.text # << >> THEN << WebSocketMessageReceived(data.text) >>
    ELSE << AudioFrameReceived(data.data, FALSE) >>

\* A _process_message without its try/except: the exception reaches the loop.
AfterProcessUnguarded(data, outcome) ==
    IF outcome = "raised" THEN "raise_error"
    ELSE IF data.type = "websocket.disconnect" THEN "receive_closed" ELSE "receive"

\* Where the loop is after _process_message(data): `except Exception` in
\* _process_message logs whatever the handling raised, and the loop calls
\* receive() again (on a transport that has delivered its disconnect message,
\* after that message).
AfterProcess(data, outcome) ==
    IF data.type = "websocket.disconnect" THEN "receive_closed" ELSE "receive"

\* receive() completes: the loop's task is woken with a message or with an
\* exception.  A transport that has delivered its disconnect message raises
\* on the next receive().
LoopReceives(t, outcome, data) ==
    /\ Idle /\ nEnv < MaxEvents
    /\ t[1] = "msg_loop" /\ Me(t).st = "wait"
    /\ Me(t).pc \in { "receive", "receive_closed" }
    /\ Me(t).pc = "receive_closed" => outcome = "error"
    /\ outcome = "message" => data \in WsMessages
    /\ outcome # "message" => data = WsDisconnectMessage
    /\ nEnv' = nEnv + 1
    /\ tasks' = [tasks EXCEPT ![t[1]][t[2]] =
                    [@ EXCEPT !.st = "ready",
                              !.arg = data,
                              !.pc = CASE outcome = "WebSocketDisconnect" -> "raise_disconnect"
                                       [] outcome = "error" -> "raise_error"
                                       [] OTHER -> "process"]]
    /\ ready' = Append(ready, t)
    /\ published' = << >>
    /\ UNCHANGED << cur, handlers, nYield, asrVars, svcVars, ghostVars, ttsVars >>

\* `await self._process_message(data)`: the handling publishes its event
\* without suspending, or raises; then the loop waits in receive() again.
LoopProcess(t, outcome) ==
    /\ Running(t) /\ t[1] = "msg_loop" /\ Me(t).pc = "process"
    /\ LET data == Me(t).arg
           evs == IF outcome = "raised" THEN << >> ELSE ProcessMessage(data)
           next == AfterProcess(data, outcome)
       IN  /\ published' = evs
           /\ msg_loop' = [msg_loop EXCEPT !.failed = IF outcome = "raised" THEN @ + 1 ELSE @]
           /\ IF next = "raise_error"
              THEN Continue(t, Goto(PublishAll(L0, evs), t, next))
              ELSE Yield(SetTask(PublishAll(L0, evs), t,
                                 [Me(t) EXCEPT !.pc = next, !.st = "wait"]))
    /\ UNCHANGED << handlers, nEnv, nYield, asrVars, svcVars, lastTid, pauses, last_update, last_taken,
                    returned, finished, gen_ended, sent, ttsVars >>

\* The except clauses of handle_message_loop: WebSocketDisconnect and any
\* other exception are logged, and the loop returns.
LoopReturns(t) ==
    /\ Running(t) /\ t[1] = "msg_loop"
    /\ Me(t).pc \in { "raise_disconnect", "raise_error" }
    /\ closed' = TRUE
    /\ msg_loop' = [msg_loop EXCEPT !.exit = IF Me(t).pc = "raise_disconnect"
                                             THEN "disconnect" ELSE "error"]
    /\ published' = << >>
    /\ Yield(Finish(L0, t))
    /\ UNCHANGED << handlers, nEnv, nYield, asrVars, shut, gathered, lastTid, pauses, last_update,
                    last_taken, returned, finished, gen_ended, sent, ttsVars >>

\* The handling of a message: it goes through, or something in it raises.
ProcessOutcomes == { "ok", "raised" }

LoopStep ==
    \/ \E o \in ProcessOutcomes : LoopProcess(Actor, o)
    \/ LoopReturns(Actor)

LoopEnv ==
    \/ \E t \in TasksOf({ "asr_cons" }) : AsrTimerFires(t)
    \/ \E t \in TasksOf({ "msg_loop" }) :
          \E o \in ReceiveOutcomes : \E d \in WsMessages \cup { WsDisconnectMessage } :
             LoopReceives(t, o, d)

\* The connection is accepted and handle_message_loop waits in receive().
InitLoop ==
    /\ ready = << >> /\ cur = NoTask
    /\ tasks = [k \in Kinds |->
                  IF k = "msg_loop"
                  THEN << [NewTask(NoEvent) EXCEPT !.pc = "receive", !.st = "wait"] >>
                  ELSE << >>]
    /\ getters = << >>
    /\ handlers = [e \in EventTypes |-> ASRSubscriptions[e] \o GatewaySubscriptions[e]]
    /\ published = << >> /\ nEnv = 0 /\ nYield = 0
    /\ lastTid = 0 /\ pauses = 0 /\ last_taken = 0 /\ returned = "none"
    /\ finished = << >> /\ gen_ended = { } /\ sent = << >> /\ msg_loop = LoopRuns
    /\ last_update = NoUpdate
    /\ InitASRState /\ closed = FALSE /\ shut = { } /\ gathered = { }
    /\ is_paused = FALSE /\ current_task_id = 0 /\ current_text = EmptyText
    /\ tts_gen_task = NoTask /\ consumer_task = NoTask /\ tts_running = FALSE
    /\ tts_queue = << >>

\* SpecLoop: handle_message_loop of one connection, with the handlers of
\* InputGateway and the ASRManager behind it.
NextLoop == ASRStep \/ GatewayStep \/ LoopStep \/ LoopEnv

SpecLoop == InitLoop /\ [][NextLoop]_vars


\* The loop runs the next step of the stop sequence in EventBus.shutdown.
StopStep == BusShutdownStart(Actor) \/ BusShutdownEnd(Actor)

\* The client disconnects: InputGateway.handle_message_loop returns, then
\* Service.handle_message_loop and websocket_endpoint.  Nothing else is done.
EndpointReturns ==
    /\ Idle /\ ~closed
    /\ closed' = TRUE
    /\ published' = << >>
    /\ UNCHANGED << ready, cur, tasks, handlers, nEnv, nYield, shut, gathered,
                    asrVars, ghostVars, ttsVars >>

\* The client disconnects and the stop sequence is run on exit:
\* asr_manager.shutdown(), tts_manager.shutdown(), event_bus.shutdown(), each
\* awaited in turn.  The sequence runs in the task of the endpoint, which is
\* the running task when the message loop returns.
EndpointStops ==
    /\ Idle /\ ~closed
    /\ closed' = TRUE
    /\ published' = << >>
    /\ tasks' = [tasks EXCEPT !["svc_stop"] = << NewTask(NoEvent) >>]
    /\ cur' = StopTask
    /\ UNCHANGED << ready, handlers, nEnv, nYield, shut, gathered, asrVars, ghostVars,
                    ttsVars >>

\* What reaches the components of one connection: the executor's results and
\* the timers at any time; frames and VAD signals until the client disconnects.
\* The messages of one connection: a segment (start, audio, end) and the
\* start of the next one fit in one delivery fewer than the runs of SpecASR.
ConnectionEvents == MaxEvents - 1

ServiceEnv ==
    \/ \E t \in TasksOf({ "gen" }) :
        \/ ExecutorYields(t, "pcm", <<"a">>)
        \/ ExecutorEnds(t, "stop")
    \/ \E t \in TasksOf({ "cons" }) : TimerFires(t)
    \/ \E t \in TasksOf({ "asr_cons" }) : AsrTimerFires(t)
    \/ ~closed /\ \E n \in FrameBytes :
                     EnvPublish(<< AudioFrameReceived(n, FALSE) >>, ConnectionEvents)
    \/ ~closed /\ EnvPublish(<< VADSpeechStart >>, ConnectionEvents)
    \/ ~closed /\ EnvPublish(SpeechEndSignal, ConnectionEvents)

InitService ==
    /\ ready = << >> /\ cur = NoTask /\ tasks = [k \in Kinds |-> << >>]
    /\ getters = << >>
    /\ handlers = ServiceSubscriptions
    /\ published = << >> /\ nEnv = 0 /\ nYield = 0
    /\ lastTid = 0 /\ pauses = 0 /\ last_taken = 0 /\ returned = "none"
    /\ finished = << >> /\ gen_ended = { } /\ sent = << >> /\ msg_loop = LoopRuns
    /\ last_update = NoUpdate
    /\ InitASRState /\ closed = FALSE /\ shut = { } /\ gathered = { }
    /\ is_paused = FALSE /\ current_task_id = 0 /\ current_text = EmptyText
    /\ tts_gen_task = NoTask /\ consumer_task = NoTask /\ tts_running = FALSE
    /\ tts_queue = << >>

\* SpecService: one connection as the code runs it.
NextService == ASRStep \/ TTSStep \/ ServiceEnv \/ EndpointReturns

SpecService == InitService /\ [][NextService]_vars

\* SpecStop: one connection with the stop sequence run when it closes.
NextStop == ASRStep \/ TTSStep \/ StopStep \/ ServiceEnv \/ EndpointStops

SpecStop == InitService /\ [][NextStop]_vars

\* ----------------------------------------------------- OutputGateway
\* OutputGateway._setup_event_listeners
OutputSubscriptions ==
    [e \in EventTypes |->
        IF e \in { "asr.result_partial", "asr.result_final", "tts.chunk_generated",
                   "tts.response_update", "tts.response_finish" }
        THEN << "out_send" >> ELSE << >>]

\* What the handler of OutputGateway subscribed to the type of ev writes to
\* the websocket: a JSON text message with its action and the text of the
\* event, or the audio chunk as a binary frame.
FrameOf(ev) ==
    CASE ev.type = "asr.result_partial" -> [action |-> "update_asr", text |-> ev.text]
      [] ev.type = "asr.result_final" -> [action |-> "finish_asr", text |-> ev.text]
      [] ev.type = "tts.chunk_generated" -> [action |-> "binary", text |-> EmptyText]
      [] ev.type = "tts.response_update" -> [action |-> "update_resp", text |-> ev.text]
      [] ev.type = "tts.response_finish" -> [action |-> "finish_resp", text |-> ev.text]

\* _send_update_asr_signal, _send_finish_asr_signal, _send_tts_chunk_signal,
\* _send_update_resp_signal and _send_finish_resp_signal, each run as a
\* handler task: the frame is handed to the websocket of the open connection
\* in the first step of the handler (a TTSChunkGenerated event is published
\* only with a chunk that is not empty).
OutSend(t) ==
    /\ Running(t) /\ t[1] = "out_send"
    /\ sent' = Append(sent, FrameOf(Me(t).arg))
    /\ published' = << >>
    /\ Yield(Finish(L0, t))
    /\ UNCHANGED << handlers, nEnv, nYield, asrVars, svcVars, lastTid, pauses, last_update, last_taken,
                    returned, finished, gen_ended, msg_loop, ttsVars >>

\* The turns of one run of SpecOutput.
OutputTurns == MaxEvents - 1

\* SpecOutput: the TTSManager and the OutputGateway on one bus (TTSManager
\* subscribes first, Service.__init__), with turns in quick succession
\* and a barge-in.
OutputEnv ==
    \/ \E t \in TasksOf({ "gen" }) :
        \/ \E o \in PipelineOutputs : ExecutorYields(t, o.audio, o.text)
        \/ ExecutorEnds(t, "stop")
    \/ \E t \in TasksOf({ "cons" }) : TimerFires(t)
    \/ EnvPublish(<< ASRResultFinal >>, OutputTurns)
    \/ EnvPublish(<< VADSpeechStart >>, OutputTurns)

InitOutput ==
    /\ ready = << >> /\ cur = NoTask /\ tasks = [k \in Kinds |-> << >>]
    /\ getters = << >>
    /\ handlers = [e \in EventTypes |-> TTSSubscriptions[e] \o OutputSubscriptions[e]]
    /\ published = << >> /\ nEnv = 0 /\ nYield = 0
    /\ lastTid = 0 /\ pauses = 0 /\ last_taken = 0 /\ returned = "none"
    /\ finished = << >> /\ gen_ended = { } /\ sent = << >> /\ msg_loop = LoopRuns
    /\ last_update = NoUpdate
    /\ InitASRState /\ closed = FALSE /\ shut = { } /\ gathered = { }
    /\ is_paused = FALSE /\ current_task_id = 0 /\ current_text = EmptyText
    /\ tts_gen_task = NoTask /\ consumer_task = NoTask /\ tts_running = FALSE
    /\ tts_queue = << >>

NextOutput == TTSStep \/ OutSend(Actor) \/ OutputEnv

SpecOutput == InitOutput /\ [][NextOutput]_vars

\* ------------------------------------------------- one clean turn
\* Service.__init__: ASRManager, TTSManager, InputGateway and OutputGateway
\* subscribe in this order.
ClientSubscriptions ==
    [e \in EventTypes |->
        ASRSubscriptions[e] \o TTSSubscriptions[e] \o GatewaySubscriptions[e]
            \o OutputSubscriptions[e]]

\* The audio frames of the utterance.
TurnFrames == MaxEvents - 2

\* The binary frames the client has sent (the frame InputGateway adds after
\* VADSpeechEnd is not one of them).
FramesReceived == Len(tasks["asr_frame"]) - (IF Len(tasks["asr_end"]) > 0 THEN 1 ELSE 0)

\* The client of a clean turn: it sends vad_speech_start, then audio frames,
\* then vad_speech_end, and nothing else.  handle_message_loop publishes a
\* text message as WebSocketMessageReceived and a binary one as
\* AudioFrameReceived.
ClientSends ==
    \/ /\ tasks["gw_msg"] = << >>
       /\ EnvPublish(<< WebSocketMessageReceived(<< "", "vad_speech_start" >>) >>, MaxEvents)
    \/ /\ Len(tasks["gw_msg"]) = 1 /\ FramesReceived < TurnFrames
       /\ \E n \in FrameBytes : EnvPublish(<< AudioFrameReceived(n, FALSE) >>, MaxEvents)
    \/ /\ Len(tasks["gw_msg"]) = 1 /\ FramesReceived >= 1
       /\ EnvPublish(<< WebSocketMessageReceived(<< "", "vad_speech_end" >>) >>, MaxEvents)

\* The recognizer returns text for the audio of the utterance: the flush of
\* the finally clause, made when bytes are left, returns text too.
AsrFinallyText(t) ==
    AsrFinally(t, IF Running(t) /\ t[1] = "asr_cons" /\ Me(t).acc > Me(t).proc
                  THEN "text" ELSE "none")

\* The pipeline yields chunks with audio and text, at least one, and ends.
ClientEnv ==
    \/ \E t \in TasksOf({ "gen" }) :
        \/ ExecutorYields(t, "pcm", <<"a">>)
        \/ nYield >= 1 /\ ExecutorEnds(t, "stop")
    \/ \E t \in TasksOf({ "cons" }) : TimerFires(t)
    \/ \E t \in TasksOf({ "asr_cons" }) : AsrTimerFires(t)
    \/ ClientSends

InitClient ==
    /\ ready = << >> /\ cur = NoTask /\ tasks = [k \in Kinds |-> << >>]
    /\ getters = << >>
    /\ handlers = ClientSubscriptions
    /\ published = << >> /\ nEnv = 0 /\ nYield = 0
    /\ lastTid = 0 /\ pauses = 0 /\ last_taken = 0 /\ returned = "none"
    /\ finished = << >> /\ gen_ended = { } /\ sent = << >> /\ msg_loop = LoopRuns
    /\ last_update = NoUpdate
    /\ InitASRState /\ closed = FALSE /\ shut = { } /\ gathered = { }
    /\ is_paused = FALSE /\ current_task_id = 0 /\ current_text = EmptyText
    /\ tts_gen_task = NoTask /\ consumer_task = NoTask /\ tts_running = FALSE
    /\ tts_queue = << >>

\* SpecClient: one connection as the code runs it, from the messages of the
\* client to the frames written back, for a client that sends one utterance.
\* With one turn and no error no generator and no TTS consumer is alive when
\* reset_tts runs, and no error.occurred event reaches InputGateway: the
\* steps that handle these are never enabled.
NextClient ==
    \/ AsrHandleAudioFrame(Actor) \/ AsrStopConsumer(Actor)
    \/ AsrHandleSpeechEnd(Actor) \/ AsrReset(Actor)
    \/ AsrConsCancelled(Actor) \/ AsrConsLoop(Actor)
    \/ AsrFlush(Actor, "text") \/ AsrFinallyText(Actor)
    \/ ResetStart(Actor) \/ StopConsumer(Actor) \/ ResetFinish(Actor)
    \/ BumpTaskId(Actor) \/ StartTurn(Actor) \/ TTSVadSpeechStart(Actor)
    \/ GenStart(Actor) \/ GenNext(Actor) \/ GenStop(Actor)
    \/ ConsLoop(Actor) \/ ConsItem(Actor) \/ ConsAfter(Actor)
    \/ PublishFinished(Actor)
    \/ GwHandleMessage(Actor) \/ OutSend(Actor) \/ ClientEnv

SpecClient == InitClient /\ [][NextClient]_vars

\* ------------------------------------------- turns with failures
\* A client that sends its utterances one after the other: vad_speech_start
\* opens one, frames follow, vad_speech_end closes it.
UtteranceOpen == Len(tasks["asr_start"]) > Len(tasks["asr_end"])

\* The messages of one run of SpecErrors: an utterance with a frame, its
\* end, and the next utterance with its end.
ErrorsEvents == MaxEvents + 1

\* SpecErrors: one connection as in SpecService, with a recognizer and a
\* pipeline that may raise.
ErrorsEnv ==
    \/ \E t \in TasksOf({ "gen" }) :
        \/ ExecutorYields(t, "pcm", <<"a">>)
        \/ ExecutorEnds(t, "stop")
        \/ ExecutorEnds(t, "raised")
    \/ \E t \in TasksOf({ "cons" }) : TimerFires(t)
    \/ \E t \in TasksOf({ "asr_cons" }) : AsrTimerFires(t)
    \/ UtteranceOpen /\ \E n \in FrameBytes :
                            EnvPublish(<< AudioFrameReceived(n, FALSE) >>, ErrorsEvents)
    \/ ~UtteranceOpen /\ EnvPublish(<< VADSpeechStart >>, ErrorsEvents)
    \/ UtteranceOpen /\ EnvPublish(SpeechEndSignal, ErrorsEvents)

NextErrors == ASRStep \/ TTSStep \/ ErrorsEnv

SpecErrors == InitService /\ [][NextErrors]_vars

\* ------------------------------------------ EventBus and its subscribers
\* Four subscribers of a bus: two of VADSpeechStart, subscribed in this
\* order, one of ASRResultFinal and one of ErrorOccurred.
BusHandlerKinds == { "h_first", "h_second", "h_next", "h_error" }

BusSubscriptions ==
    [e \in EventTypes |->
        CASE e = "vad.speech_start" -> << "h_first", "h_second" >>
          [] e = "asr.result_final" -> << "h_next" >>
          [] e = "error.occurred" -> << "h_error" >>
          [] OTHER -> << >>]

\* What the coroutine of a subscriber does with an event: it returns, raises
\* an exception, publishes an event of its own and returns, or suspends.
\* The first subscriber publishes an ASRResultFinal (without
\* wait_for_completion), the second one sleeps.
HandlerOutcomes ==
    [k \in BusHandlerKinds |->
        CASE k = "h_first" -> { "return", "raise", "publish" }
          [] k = "h_second" -> { "return", "raise", "sleep" }
          [] k = "h_next" -> { "return" }
          [] k = "h_error" -> { "return", "raise" }]

\* The calls of publish in one run.
BusCalls == MaxEvents - 2

\* The events callers publish on the bus.
CallerEvents == { VADSpeechStart, ErrorEvent("asr_consumer_error", "ASRManager") }

\* A bus that never reports the exception of a handler.
HandlerErrorEventsNone(ev, name) == << >>

\* The except clause of _handle_event_safe: the error event it has published,
\* none for a handler of error.occurred.
HandlerErrorEvents(ev, name) ==
    IF ev.type # "error.occurred"
    THEN << ErrorEvent("event_handler_error", name) >>
    ELSE << >>

\* A bus that reports every failure of publish.
PublishErrorEventsAlways(ev) == << ErrorEvent("event_bus_publish_error", "EventBus") >>

\* The except clause of publish: the error event it has published, none when
\* the event that could not be published is an error.occurred.
PublishErrorEvents(ev) ==
    IF ev.type # "error.occurred"
    THEN << ErrorEvent("event_bus_publish_error", "EventBus") >>
    ELSE << >>

\* asyncio.create_task(self.publish(error_event)), once per event of evs
ErrorTasks(L, evs) == IF evs = << >> THEN L ELSE Spawn(L, "pub_err", Head(evs))

\* The handler tasks a publish has created.
SpawnedBy(L, L1) ==
    { u \in UNION { { << k, i >> : i \in DOMAIN L1.tasks[k] } : k \in BusHandlerKinds } :
        u[2] > Len(L.tasks[u[1]]) }

\* A publish that joins no task.
WaitsForHandlersNever(wait_for_completion, spawned) == FALSE

\* if wait_for_completion and tasks: await asyncio.gather(*tasks, ...)
WaitsForHandlers(wait_for_completion, spawned) ==
    wait_for_completion /\ spawned # { }

\* A coroutine calls publish(event), with wait_for_completion for a pub_wait
\* task.  ok: no exception inside publish; the handler tasks are created and
\* the caller gets True, at once or when the tasks are done.  Not ok: no
\* task is created, the failure is reported and the caller gets False.
CallerPublishes(t, ok) ==
    /\ Running(t) /\ t[1] \in { "pub", "pub_wait" } /\ Me(t).pc = "start"
    /\ published' = << Me(t).arg >>
    /\ IF ok
       THEN LET L1 == Publish(L0, Me(t).arg)
                spawned == SpawnedBy(L0, L1)
            IN  IF WaitsForHandlers(t[1] = "pub_wait", spawned)
                THEN /\ Yield(SetTask(L1, t, [Me(t) EXCEPT !.pc = "p_wait", !.st = "wait",
                                                            !.gather = spawned]))
                     /\ UNCHANGED returned
                ELSE /\ Yield(Finish(L1, t))
                     /\ returned' = "True"
       ELSE /\ Yield(Finish(ErrorTasks(L0, PublishErrorEvents(Me(t).arg)), t))
            /\ returned' = "False"
    /\ UNCHANGED << handlers, nEnv, nYield, asrVars, svcVars, lastTid, pauses, last_update,
                    last_taken, outVars, ttsVars >>

\* The gathered tasks are done: publish returns True.
CallerReturns(t) ==
    /\ Running(t) /\ t[1] = "pub_wait" /\ Me(t).pc = "p_wait"
    /\ published' = << >>
    /\ returned' = "True"
    /\ Yield(Finish(L0, t))
    /\ UNCHANGED << handlers, nEnv, nYield, asrVars, svcVars, lastTid, pauses, last_update,
                    last_taken, outVars, ttsVars >>

\* The task of publish(error_event) runs: wait_for_completion is False.
PubErrRuns(t, ok) ==
    /\ Running(t) /\ t[1] = "pub_err"
    /\ published' = << Me(t).arg >>
    /\ returned' = IF ok THEN "True" ELSE "False"
    /\ IF ok
       THEN Yield(Finish(Publish(L0, Me(t).arg), t))
       ELSE Yield(Finish(ErrorTasks(L0, PublishErrorEvents(Me(t).arg)), t))
    /\ UNCHANGED << handlers, nEnv, nYield, asrVars, svcVars, lastTid, pauses, last_update,
                    last_taken, outVars, ttsVars >>

\* _handle_event_safe runs the handler of a subscriber, from its start or
\* after its sleep; a handler sleeps at most once.
BusHandlerRuns(t, outcome) ==
    /\ Running(t) /\ t[1] \in BusHandlerKinds /\ Me(t).pc \in { "start", "sleep" }
    /\ outcome \in HandlerOutcomes[t[1]]
    /\ outcome = "sleep" => Me(t).pc = "start"
    /\ CASE outcome = "return" ->
              /\ published' = << >> /\ UNCHANGED returned
              /\ Yield(Finish(L0, t))
         [] outcome = "raise" ->
              /\ published' = << >> /\ UNCHANGED returned
              /\ Continue(t, Goto(L0, t, "except"))
         [] outcome = "publish" ->
              /\ published' = << ASRResultFinal >>
              /\ returned' = "True"
              /\ Yield(Finish(Publish(L0, ASRResultFinal), t))
         [] outcome = "sleep" ->
              /\ published' = << >> /\ UNCHANGED returned
              /\ Yield(SetTask(L0, t, [Me(t) EXCEPT !.pc = "sleep", !.st = "wait"]))
    /\ UNCHANGED << handlers, nEnv, nYield, asrVars, svcVars, lastTid, pauses, last_update,
                    last_taken, outVars, ttsVars >>

\* The except clause of _handle_event_safe: the exception is logged and an
\* error event is published in a task of its own; the handler task ends.
HandleEventSafeExcept(t) ==
    /\ Running(t) /\ t[1] \in BusHandlerKinds /\ Me(t).pc = "except"
    /\ published' = << >>
    /\ Yield(Finish(ErrorTasks(L0, HandlerErrorEvents(Me(t).arg, t[1])), t))
    /\ UNCHANGED << handlers, nEnv, nYield, asrVars, svcVars, ghostVars, ttsVars >>

\* The sleep of a handler ends.
BusTimerFires(t) ==
    /\ Idle /\ ready = << >>
    /\ t[1] \in BusHandlerKinds /\ Me(t).st = "wait" /\ Me(t).pc = "sleep"
    /\ tasks' = [tasks EXCEPT ![t[1]][t[2]].st = "ready"]
    /\ ready' = Append(ready, t)
    /\ published' = << >>
    /\ UNCHANGED << cur, handlers, nEnv, nYield, svcVars, ghostVars, ttsVars, asrVars >>

\* A coroutine that is about to call publish is scheduled.
CallPublish(kind, ev) ==
    /\ Idle /\ nEnv < BusCalls
    /\ nEnv' = nEnv + 1
    /\ published' = << >>
    /\ LET L1 == Spawn([tasks |-> tasks, ready |-> ready], kind, ev)
       IN  /\ tasks' = L1.tasks
           /\ ready' = L1.ready
    /\ UNCHANGED << cur, handlers, nYield, asrVars, svcVars, ghostVars, ttsVars >>

BusStep ==
    \/ \E ok \in BOOLEAN : CallerPublishes(Actor, ok)
    \/ CallerReturns(Actor)
    \/ \E ok \in BOOLEAN : PubErrRuns(Actor, ok)
    \/ \E o \in { "return", "raise", "publish", "sleep" } : BusHandlerRuns(Actor, o)
    \/ HandleEventSafeExcept(Actor)

BusEnv ==
    \/ \E t \in TasksOf(BusHandlerKinds) : BusTimerFires(t)
    \/ \E kind \in { "pub", "pub_wait" } : \E ev \in CallerEvents : CallPublish(kind, ev)

InitBus ==
    /\ ready = << >> /\ cur = NoTask /\ tasks = [k \in Kinds |-> << >>]
    /\ getters = << >>
    /\ handlers = BusSubscriptions
    /\ published = << >> /\ nEnv = 0 /\ nYield = 0
    /\ lastTid = 0 /\ pauses = 0 /\ last_taken = 0 /\ returned = "none"
    /\ finished = << >> /\ gen_ended = { } /\ sent = << >> /\ msg_loop = LoopRuns
    /\ last_update = NoUpdate
    /\ InitASRState /\ closed = FALSE /\ shut = { } /\ gathered = { }
    /\ is_paused = FALSE /\ current_task_id = 0 /\ current_text = EmptyText
    /\ tts_gen_task = NoTask /\ consumer_task = NoTask /\ tts_running = FALSE
    /\ tts_queue = << >>

\* SpecBus: the EventBus with subscribers whose handlers return, raise,
\* publish or suspend, and callers that publish with and without
\* wait_for_completion.
NextBus == BusStep \/ BusEnv

SpecBus == InitBus /\ [][NextBus]_vars

\* ====================================================== properties
TTSEventTypes ==
    { "tts.chunk_generated", "tts.response_update", "tts.response_finish", "tts.paused" }

\* The record of task t after the step.
Next_(t) == tasks'[t[1]][t[2]]

\* The step is the one in which task t handles the item it took from the queue.
HandlesItem(t) == Me(t).pc = "item" /\ Next_(t).pc # "item"

\* C1: current_task_id never decreases; it changes only when an
\* ASRResultFinal handler passes its _generate_task_id call, and then by
\* exactly 1, whatever resets, pauses, TTSPlaybackFinished events and shutdown
\* calls are interleaved; and the consumer publishes nothing in the step in
\* which it handles an item whose task_id differs from current_task_id.
C1_TaskIdIncreasesStaleDropped ==
    [][ /\ current_task_id' >= current_task_id
        /\ \A t \in TasksOf({ "tts_final" }) :
              (Me(t).pc = "bump" /\ Next_(t).pc # "bump")
                  => current_task_id' = current_task_id + 1
        /\ (current_task_id' # current_task_id)
              => \E t \in TasksOf({ "tts_final" }) :
                    Me(t).pc = "bump" /\ Next_(t).pc # "bump"
        /\ \A t \in TasksOf({ "cons" }) :
              (HandlesItem(t) /\ Me(t).item.task_id # current_task_id)
                  => published' = << >> ]_vars

\* C1 witness: after a shutdown or a TTSPlaybackFinished reset, in the second
\* turn or later, the consumer has taken an item of an older turn.
C1_Witness ==
    /\ current_task_id >= 2
    /\ tasks["tts_shutdown"] # << >> \/ tasks["tts_playback"] # << >>
    /\ \E t \in TasksOf({ "cons" }) :
          /\ Me(t).pc = "item"
          /\ Me(t).item.task_id # current_task_id
          /\ Me(t).item.audio_chunk # NoAudio

\* C2: while is_paused stays true, no consumer takes an item from tts_queue
\* and no TTSChunkGenerated, TTSResponseUpdate or TTSResponseFinish with the
\* current task_id is published.
C2_PausedConsumerSilent ==
    [][ (is_paused /\ is_paused')
          => /\ \A t \in TasksOf({ "cons" }) :
                  ~(Me(t).pc # "item" /\ Next_(t).pc = "item")
             /\ \A i \in DOMAIN published' :
                  published'[i].type \in { "tts.chunk_generated", "tts.response_update",
                                            "tts.response_finish" }
                      => published'[i].task_id # current_task_id ]_vars

\* C8: a TTSChunkGenerated is published only with a task_id at least as high
\* as that of every TTS event published before it; and the consumer publishes
\* nothing in the step in which it handles an item whose task_id is lower than
\* current_task_id.
C8_ChunksInTurnOrder ==
    [][ /\ \A i \in DOMAIN published' :
              published'[i].type = "tts.chunk_generated"
                  => published'[i].task_id >= lastTid
        /\ \A i \in DOMAIN published' :
              published'[i].type \in TTSEventTypes
                  => \A j \in 1..(i - 1) : published'[j].task_id <= published'[i].task_id
        /\ \A t \in TasksOf({ "cons" }) :
              (HandlesItem(t) /\ Me(t).item.task_id < current_task_id)
                  => published' = << >> ]_vars

\* C8 witness: an event of the current turn has been published and the
\* consumer has just taken an audio item of an earlier turn.
C8_Witness ==
    /\ lastTid = current_task_id
    /\ \E t \in TasksOf({ "cons" }) :
          /\ Me(t).pc = "item"
          /\ Me(t).item.task_id < current_task_id
          /\ Me(t).item.audio_chunk # NoAudio

\* C9 as stated: at most one TTSPaused is published for a turn in flight
\* before the next turn begins (exactly one for its barge-in).
C9_ExactlyOnePaused == pauses <= 1

\* The VADSpeechStart handler runs of TTSManager that end in this step.
VadHandlerRuns ==
    { t \in TasksOf({ "tts_vad" }) : Me(t).st # "done" /\ Next_(t).st = "done" }

\* C9 amended: every run of the VADSpeechStart handler publishes exactly one
\* TTSPaused, carrying current_task_id and current_text as they are when the
\* handler runs, and leaves is_paused set; nothing else publishes a TTSPaused.
C9_OnePausedPerSpeechStart ==
    [][ /\ Len(SelectSeq(published', LAMBDA e : e.type = "tts.paused"))
              = Cardinality(VadHandlerRuns)
        /\ VadHandlerRuns # { }
              => /\ published' = << Event("tts.paused", current_task_id, current_text) >>
                 /\ is_paused' ]_vars

\* C9 witness: a barge-in: the TTSPaused of a turn in flight, carrying a
\* text, has just been published.
C9_Witness ==
    /\ pauses = 1 /\ is_paused /\ TurnInFlight
    /\ current_task_id >= 1 /\ current_text # EmptyText
    /\ published = << Event("tts.paused", current_task_id, current_text) >>


\* The loop has nothing to run.
Quiescent == cur = NoTask /\ ready = << >>

\* The VADSpeechEnd handler runs of ASRManager that end in this step.
SpeechEndHandlerRuns ==
    { t \in TasksOf({ "asr_end" }) : Me(t).st # "done" /\ Next_(t).st = "done" }

\* C3: every run of the VADSpeechEnd handler ends by publishing exactly one
\* ASRResultFinal, nothing else publishes one, and no such handler is left
\* waiting once the loop has nothing to run: one ASRResultFinal for every
\* VADSpeechEnd delivered, however the handlers and the consumer interleave.
C3_OneFinalPerSpeechEnd ==
    /\ [][ Len(SelectSeq(published', LAMBDA e : e.type = "asr.result_final"))
              = Cardinality(SpeechEndHandlerRuns) ]_vars
    /\ [](Quiescent => \A t \in TasksOf({ "asr_end" }) : Me(t).st = "done")

\* C3 witness: an ASRResultFinal has just been published for the second
\* VADSpeechEnd of a run in which a segment was started.
C3_Witness ==
    /\ \E i \in DOMAIN published : published[i].type = "asr.result_final"
    /\ Len(tasks["asr_end"]) >= 2 /\ tasks["asr_end"][2].st = "done"
    /\ tasks["asr_start"] # << >>

\* C4: when ASRResultFinal is published, no frame with audio that was
\* appended while the segment was open is still in audio_buffer.
C4_SegmentFlushedBeforeFinal ==
    (\E i \in DOMAIN published : published[i].type = "asr.result_final")
        => \A i \in DOMAIN audio_buffer :
              ~(audio_buffer[i].seg /\ audio_buffer[i].data > 0)

\* The consumers that pass audio to the recognizer in this step.
Flushes ==
    { t \in TasksOf({ "asr_cons" }) :
        /\ Me(t).pc = "flush" \/ (Me(t).pc = "finally" /\ Me(t).acc > Me(t).proc)
        /\ Next_(t).pc # Me(t).pc }

\* The runs of _reset_asr that clear the state in this step.
Resets ==
    { t \in TasksOf(AsrResetKinds) : Me(t).pc = "a_stopped" /\ Next_(t).pc # "a_stopped" }

\* C10 as stated: the cache goes from used to empty only in a step whose
\* latest recognize_stream call was final, and it is empty whenever the
\* recognizer is called after a final call.
C10_ClearedIffLastFinal ==
    [][ /\ (asr_cache = "used" /\ asr_cache' = "empty") => last_call'.is_final
        /\ (Flushes # { } /\ last_call.made /\ last_call.is_final)
              => asr_cache = "empty" ]_vars

\* C10 amended: a flush leaves the cache empty exactly when it was made with
\* is_final=true and no recognize_stream call raised; every _reset_asr
\* (VADSpeechStart, shutdown) empties it whatever the latest call was;
\* nothing else changes it.
C10_ClearedByFinalFlushOrReset ==
    [][ /\ Resets # { } => asr_cache' = "empty"
        /\ Flushes # { }
              => asr_cache' = IF last_call'.is_final /\ ~last_call'.raised
                              THEN "empty" ELSE "used"
        /\ (Resets = { } /\ Flushes = { }) => asr_cache' = asr_cache ]_vars

\* C10 witness: the cache is empty although the latest recognize_stream call
\* was not final: a reset cleared it.
C10_Witness ==
    /\ asr_cache = "empty"
    /\ last_call.made /\ ~last_call.is_final /\ ~last_call.raised
    /\ segment = "open"

\* Every task of the connection has ended.
AllTasksDone == \A t \in TasksOf(Kinds) : Me(t).st = "done"

\* C5: once the connection has closed and the endpoint has returned, the
\* shutdown of the ASRManager, of the TTSManager and of the EventBus have been
\* called and have returned, every task of the connection has ended, and
\* audio_buffer and tts_queue are empty.
C5_ShutdownOnClose ==
    closed => /\ shut = Components
              /\ AllTasksDone
              /\ audio_buffer = << >> /\ tts_queue = << >>

\* The component a handler task belongs to.
ComponentOf(t) == IF t[1] \in { "asr_frame", "asr_start", "asr_end" } THEN "asr" ELSE "tts"

\* C6: no handler task of the ASRManager or of the TTSManager starts to run
\* once the shutdown() of its component has returned.
C6_NoHandlerAfterShutdown ==
    [][ \A t \in TasksOf(HandlerKinds) :
            (Me(t).pc = "start" /\ Next_(t).pc # "start") => ComponentOf(t) \notin shut ]_vars

\* C7: once the three shutdown() calls have returned, no step publishes an
\* event on the bus.
C7_SilentAfterShutdown ==
    [][ shut = Components => published' = << >> ]_vars

\* The frames appended to audio_buffer so far: the handler tasks that are done.
Appended == Cardinality({ t \in TasksOf({ "asr_frame" }) : Me(t).st = "done" })

\* C11: audio_buffer never holds more than 1000 frames, and with no consumer
\* running it holds the latest frames appended, at most 1000 of them, in the
\* order they arrived: an append to a full buffer drops the oldest frame and
\* keeps the new one.
C11_BufferKeepsLatest ==
    LET n == Appended
        len == Len(audio_buffer)
    IN  /\ len <= AudioBufferMaxLen
        /\ asr_consumer_task = NoTask /\ segment = "none"
           => /\ len = IF n < AudioBufferMaxLen THEN n ELSE AudioBufferMaxLen
              /\ \A i \in 1 .. len : audio_buffer[i].seq = n - len + i

\* More than 1000 frames were appended and no consumer ran: the buffer is full
\* and the first frames are gone.
C11_Witness ==
    /\ Appended > AudioBufferMaxLen + 1
    /\ asr_consumer_task = NoTask
    /\ Len(audio_buffer) = AudioBufferMaxLen
    /\ Head(audio_buffer).seq > 2

\* The frames of buf are in the order their events were published.
InPublishOrder(buf) == \A i \in 1 .. Len(buf) - 1 : buf[i].seq < buf[i + 1].seq

\* C12: the frames are in audio_buffer in the order the transport delivered
\* them (the order of their AudioFrameReceived events), although each is
\* appended by a handler task of its own; and the consumers take them in that
\* order: a frame taken is later than every frame taken before it and
\* earlier than every frame left in the buffer.
C12_FramesInTransportOrder ==
    [][/\ InPublishOrder(audio_buffer')
       /\ Actor[1] = "asr_cons" /\ Len(audio_buffer') < Len(audio_buffer)
          => /\ last_taken' > last_taken
             /\ \A i \in 1 .. Len(audio_buffer') : audio_buffer'[i].seq > last_taken']_vars

\* A consumer has taken the second frame of two that waited in the buffer
\* together, and a later frame is in the buffer.
C12_Witness ==
    /\ last_taken >= 2
    /\ \E t \in TasksOf({ "asr_cons" }) : Me(t).st # "done" /\ Me(t).acc >= 2
    /\ audio_buffer # << >>

\* The handler task t of InputGateway runs (it runs in one step).
GwHandlerRuns(t) == Me(t).st # "done" /\ Next_(t).st = "done"

\* The handler tasks that handle a vad_speech_end message in this step.
SpeechEndMessagesHandled ==
    { t \in TasksOf({ "gw_msg" }) :
        GwHandlerRuns(t) /\ MessageType(Me(t).arg.text) = "vad_speech_end" }

\* C13: for every vad_speech_end message InputGateway publishes one
\* VADSpeechEnd and then one empty AudioFrameReceived marked final, with no
\* event published in between; no step publishes such a frame for any other
\* message; and no message is left unhandled on a loop with nothing to run.
C13_SentinelFollowsSpeechEnd ==
    [][/\ SpeechEndMessagesHandled # { }
          => published' = << VADSpeechEnd, AudioFrameReceived(0, TRUE) >>
       /\ (\E i \in DOMAIN published' :
              published'[i].type = "audio.frame_received" /\ published'[i].is_final)
          => Cardinality(SpeechEndMessagesHandled) = 1
       /\ Idle' /\ ready' = << >>
          => \A t \in TasksOf({ "gw_msg" }) : Next_(t).st = "done"]_vars

\* A vad_speech_end message was handled in the last step: the ASRManager
\* has a VADSpeechEnd handler and a final frame to run.
C13_Witness ==
    /\ published = << VADSpeechEnd, AudioFrameReceived(0, TRUE) >>
    /\ \E t \in TasksOf({ "gw_msg" }) : Me(t).st = "done"
    /\ \E t \in TasksOf({ "asr_end" }) : Me(t).pc = "start"
    /\ \E t \in TasksOf({ "asr_frame" }) : Me(t).pc = "start" /\ Me(t).arg.is_final

\* The handler task t starts to run in this step.
HandlerStarts(t) == Me(t).pc = "start" /\ Next_(t).pc # "start"

\* The handler task exists and has started (it may not have finished).
HasStarted(kind, k) == k \in DOMAIN tasks[kind] /\ tasks[kind][k].pc # "start"

\* C14: the handler tasks of one subject start in the order of the publish
\* calls, and for one event in the order of subscription: when the j-th
\* subscriber starts to handle the k-th event of a subject, every subscriber
\* has started on the earlier events of the subject and the subscribers
\* before it have started on the k-th.  Nothing is said of the order in
\* which they finish.
C14_HandlersStartInOrder ==
    [][\A e \in EventTypes : \A j \in DOMAIN ServiceSubscriptions[e] :
         \A k \in DOMAIN tasks[ServiceSubscriptions[e][j]] :
            HandlerStarts(<< ServiceSubscriptions[e][j], k >>)
            => \A i \in DOMAIN ServiceSubscriptions[e] :
                  /\ \A m \in 1 .. k - 1 : HasStarted(ServiceSubscriptions[e][i], m)
                  /\ i < j => HasStarted(ServiceSubscriptions[e][i], k)]_vars

\* Two VADSpeechStart events were published: the handler of ASRManager has
\* started on the second and waits for its consumer, the handler of
\* TTSManager, which started after it, is done before it.
C14_Witness ==
    /\ Len(tasks["asr_start"]) >= 2 /\ Len(tasks["tts_vad"]) >= 2
    /\ tasks["asr_start"][2].st = "wait"
    /\ tasks["tts_vad"][2].st = "done"

\* The except clause of _handle_event_safe runs for the handler task t.
ExceptRuns(t) == Me(t).pc = "except" /\ Next_(t).st = "done"

\* The step creates one task that publishes the event_handler_error event of
\* the handler task t.
ErrorTaskCreatedFor(t) ==
    tasks'["pub_err"] =
        Append(tasks["pub_err"], NewTask(ErrorEvent("event_handler_error", t[1])))

\* C15 as stated: whenever a handler raises, whatever the event, one
\* error.occurred event with error_type event_handler_error is published
\* for it.
C15_EveryFailureReported ==
    [][\A t \in TasksOf(BusHandlerKinds) : ExceptRuns(t) => ErrorTaskCreatedFor(t)]_vars

\* C15, amended: when a handler of an event other than error.occurred raises,
\* the other handler tasks are left as they are and every handler task is
\* run; a publish that waited for the handlers returns True; and exactly one
\* task is created for the failing handler, which publishes one
\* error.occurred event with error_type event_handler_error.
C15_HandlerFailureIsolated ==
    [][/\ \A t \in TasksOf(BusHandlerKinds) :
            ExceptRuns(t)
            => /\ \A u \in TasksOf(BusHandlerKinds) \ { t } : Next_(u) = Me(u)
               /\ Me(t).arg.type # "error.occurred" => ErrorTaskCreatedFor(t)
       /\ \A u \in TasksOf({ "pub_err" }) :
            Me(u).st # "done" /\ Next_(u).st = "done" => published' = << Me(u).arg >>
       /\ \A i \in DOMAIN published' :
            /\ published'[i].type = "error.occurred"
            /\ published'[i].text # << >>
            /\ published'[i].text[1] = "event_handler_error"
            => \E u \in TasksOf({ "pub_err" }) :
                  Me(u).st # "done" /\ Next_(u).st = "done"
       /\ \A t \in TasksOf({ "pub_wait" }) :
            Me(t).pc = "p_wait" /\ Next_(t).st = "done" => returned' = "True"
       /\ Idle' /\ ready' = << >>
          => \A u \in TasksOf(BusHandlerKinds \cup { "pub_err" }) : Next_(u).pc # "start"]_vars

\* The first handler of a VADSpeechStart published with wait_for_completion
\* has raised: the second handler is done, publish has returned True, and
\* the error event of the first handler is on its way to its subscriber.
C15_Witness ==
    /\ tasks["pub"] = << >> /\ Len(tasks["pub_wait"]) = 1
    /\ tasks["pub_wait"][1].st = "done" /\ returned = "True"
    /\ tasks["h_second"] # << >> /\ tasks["h_second"][1].st = "done"
    /\ \E u \in TasksOf({ "h_error" }) :
          Me(u).arg = ErrorEvent("event_handler_error", "h_first")

\* A publish call fails on an error.occurred event in this step: the call is
\* that of a caller or of an error task, and it returns False.
ErrorPublishFails ==
    /\ returned' = "False"
    /\ \E t \in TasksOf({ "pub", "pub_wait", "pub_err" }) :
          /\ Me(t).pc = "start" /\ Next_(t).st = "done"
          /\ Me(t).arg.type = "error.occurred"

\* The handler tasks of the subscribers of events other than error.occurred.
EventHandlerTasks == TasksOf({ "h_first", "h_second", "h_next" })

\* C16: a handler that raises while it handles an error.occurred event, and
\* a publish of an error.occurred event that fails, create no task that
\* publishes a further error.occurred event; so the error events the bus
\* derives are at most one per handler task of another event and one per
\* failed publish of a caller.
C16_NoErrorStorm ==
    [][/\ \A t \in TasksOf({ "h_error" }) :
            ExceptRuns(t) => Len(tasks'["pub_err"]) = Len(tasks["pub_err"])
       /\ ErrorPublishFails => Len(tasks'["pub_err"]) = Len(tasks["pub_err"])
       /\ Len(tasks'["pub_err"])
             <= Cardinality(EventHandlerTasks) + Len(tasks'["pub"]) + Len(tasks'["pub_wait"])]_vars

\* The first handler of an event has raised, its error event was published,
\* and the handler of that error event has raised in turn.
C16_Witness ==
    /\ Len(tasks["pub_err"]) = 1 /\ tasks["pub_err"][1].st = "done"
    /\ \E t \in TasksOf({ "h_error" }) :
          /\ Me(t).pc = "except"
          /\ Me(t).arg = ErrorEvent("event_handler_error", "h_first")

\* The handler tasks created in this step.
NewHandlerTasks ==
    { u \in UNION { { << k, i >> : i \in DOMAIN tasks'[k] } : k \in BusHandlerKinds } :
        u[2] > Len(tasks[u[1]]) }

\* C17: a publish with wait_for_completion returns only when every handler
\* task it created is done, and creates none in the step in which it
\* returns; a publish without it returns True in the step that creates the
\* handler tasks, none of which has run: they are at their start, behind the
\* tasks that were ready before, so a handler that publishes ends its own run
\* before a downstream handler starts.
C17_WaitJoinsHandlers ==
    [][/\ \A t \in TasksOf({ "pub_wait" }) :
            Me(t).st # "done" /\ Next_(t).st = "done" /\ returned' = "True"
            => /\ \A u \in Me(t).gather : Me(u).st = "done"
               /\ NewHandlerTasks = { }
       /\ \A t \in TasksOf({ "pub", "pub_err", "h_first" }) :
            Me(t).st # "done" /\ Next_(t).st = "done" /\ NewHandlerTasks # { }
            => /\ returned' = "True"
               /\ \A u \in NewHandlerTasks :
                     /\ Next_(u) = NewTask(Head(published'))
                     /\ \E i \in DOMAIN ready' :
                           /\ ready'[i] = u
                           /\ \A j \in DOMAIN Rest : \E m \in 1 .. i - 1 : ready'[m] = Rest[j]]_vars

\* A publish with wait_for_completion has returned True: its two handler
\* tasks are done, and the first of them has published an event from its
\* body, for which a handler task was created.
C17_Witness ==
    /\ tasks["pub"] = << >> /\ Len(tasks["pub_wait"]) = 1
    /\ tasks["pub_wait"][1].st = "done" /\ returned = "True"
    /\ Len(tasks["h_first"]) = 1 /\ tasks["h_first"][1].st = "done"
    /\ Len(tasks["h_second"]) = 1 /\ tasks["h_second"][1].st = "done"
    /\ Len(tasks["h_next"]) = 1

\* C18: once EventBus.shutdown has returned, no handler task created by the
\* bus is still running or waiting to run, those created while shutdown was
\* waiting included, and no subscription is left for a later publish.
C18_NoHandlerTaskAfterBusShutdown ==
    "bus" \in shut
    => /\ \A t \in TasksOf(HandlerKinds) : Me(t).st = "done"
       /\ handlers = NoSubscriptions

\* No binary frame was received: every AudioFrameReceived event published so
\* far is the final frame of a vad_speech_end signal.
NoBinaryFrame == Len(tasks["asr_frame"]) = Len(tasks["asr_end"])

\* C19: as long as the client sends VAD signals and no binary frame, every
\* ASRResultFinal has the text "" and the TTSManager publishes no
\* TTSChunkGenerated, TTSResponseUpdate or TTSResponseFinish.
C19_EmptyUtteranceSilent ==
    [][NoBinaryFrame'
       => \A i \in DOMAIN published' :
             /\ published'[i].type = "asr.result_final" => published'[i].text = EmptyText
             /\ published'[i].type \notin { "tts.chunk_generated", "tts.response_update",
                                            "tts.response_finish" }]_vars

\* The generator task t, whose pipeline has raised, ends in this step.
GenRaisedEnds(t) == Me(t).pc = "raised" /\ ~Me(t).cancel /\ Next_(t).st = "done"

\* C20: when generate_stream raises, the generator enqueues a terminal item
\* if it has produced response text, and one error.occurred event with
\* error_type tts_generation_error is published before its task ends.
C20_GeneratorFailureReported ==
    [][\A t \in TasksOf({ "gen" }) :
         GenRaisedEnds(t)
         => /\ Me(t).txt # EmptyText
               => tts_queue' = Append(tts_queue,
                                      TTSQueueItem(Me(t).tid, NoAudio, Me(t).txt, TRUE))
            /\ published' = << ErrorEvent("tts_generation_error", "TTSManager") >>]_vars

\* The turn in flight has come to rest: the loop has nothing to run, every
\* handler of ASRResultFinal, every generator and every task that publishes
\* a TTSResponseFinish has ended.
TurnSettled ==
    /\ Quiescent
    /\ \A t \in TasksOf({ "tts_final", "gen", "finish" }) : Me(t).st = "done"

\* C21: no two TTSResponseFinish events are published for one task_id; none
\* is published for a turn whose generator ended with resp_text still empty;
\* and once a turn has come to rest that was not paused, not reset
\* (consumer_state.running is still set), not superseded (its task_id is
\* current_task_id) and whose generator ran to its end (it was not
\* cancelled) with a resp_text that is not empty, its TTSResponseFinish has
\* been published.
C21_FinishOncePerTurn ==
    /\ \A i, j \in DOMAIN finished : i # j => finished[i] # finished[j]
    /\ \A e \in gen_ended : ~e[2] => \A i \in DOMAIN finished : finished[i] # e[1]
    /\ (TurnSettled /\ ~is_paused /\ tts_running /\ (\E e \in gen_ended : e[1] = current_task_id /\ e[2]))
       => \E i \in DOMAIN finished : finished[i] = current_task_id

\* C22: a flush of the consumer loop that raises publishes exactly one
\* error.occurred event with error_type asr_consumer_error, and the consumer
\* goes on: after the step it is not finished and is back in its loop, where
\* it takes the frames that arrive later in the segment.
C22_ConsumerContinuesAfterError ==
    [][\A t \in TasksOf({ "asr_cons" }) :
          (Running(t) /\ Me(t).pc = "flush" /\ last_call'.raised)
          => /\ published' = << ErrorEvent("asr_consumer_error", "ASRManager") >>
             /\ tasks'[t[1]][t[2]].st # "done"
             /\ tasks'[t[1]][t[2]].pc = "loop"]_vars

\* The state a call of reset_tts leaves when a second call right after it
\* would change nothing: not paused, the text empty, no generator alive, no
\* consumer task, the queue empty, consumer_state fresh (not running).
ResetFixedPoint ==
    /\ ~is_paused
    /\ current_text = EmptyText
    /\ ~Alive(tts_gen_task)
    /\ consumer_task = NoTask
    /\ tts_queue = << >>
    /\ ~tts_running

\* C23: reset_tts is idempotent: when a call of reset_tts returns, the state
\* is one that a second call right after it leaves as it is (is_paused false,
\* texts empty, no generator task, no consumer task, empty queue, fresh
\* consumer_state), and the call has not changed current_task_id.
C23_ResetIdempotent ==
    [][\A t \in TasksOf(ResetKinds) :
          (Running(t) /\ Me(t).pc = "r_stopped" /\ Next_(t) # Me(t))
          => /\ ResetFixedPoint'
             /\ current_task_id' = current_task_id]_vars

\* The original reading of C24: the handler of a repeated VADSpeechStart, with
\* no audio frame and no VADSpeechEnd in between, ends having published
\* one ASRResultFinal with empty text.
C24_SecondStartEmitsEmptyFinal ==
    [][\A t \in TasksOf({ "asr_start" }) :
          (Running(t) /\ Me(t).pc = "a_stopped" /\ Next_(t) # Me(t) /\ t[2] > 1
             /\ tasks["asr_frame"] = << >> /\ tasks["asr_end"] = << >>)
          => published' = << Event("asr.result_final", 0, EmptyText) >>]_vars

\* C24: a repeated VADSpeechStart produces no ASRResultFinal at all, hence no
\* duplicate: no step of a VADSpeechStart handler publishes an event, and as
\* long as no VADSpeechEnd was delivered no ASRResultFinal is published by
\* anyone; when the handler returns, accumulated_text, the cache and the
\* buffer are empty and a consumer task created by this handler is running.
C24_RepeatedStartPublishesNoFinal ==
    /\ [](tasks["asr_end"] = << >>
            => \A i \in DOMAIN published : published[i].type # "asr.result_final")
    /\ [][\A t \in TasksOf({ "asr_start" }) :
             (Running(t) /\ Next_(t) # Me(t))
             => /\ published' = << >>
                /\ Me(t).pc = "a_stopped"
                   => /\ accumulated_text' = << >>
                      /\ asr_cache' = "empty"
                      /\ audio_buffer' = << >>
                      /\ asr_running'
                      /\ asr_consumer_task' \notin TasksOf({ "asr_cons" })
                      /\ Alive(asr_consumer_task)']_vars

\* C24 witness: the handler of a second VADSpeechStart has returned, no audio
\* frame and no VADSpeechEnd was received, and the consumer it started is
\* the second one created.
C24_Witness ==
    /\ Len(tasks["asr_start"]) >= 2 /\ tasks["asr_start"][2].st = "done"
    /\ tasks["asr_frame"] = << >> /\ tasks["asr_end"] = << >>
    /\ asr_consumer_task = << "asr_cons", 2 >> /\ Alive(asr_consumer_task)
    /\ published = << >>

\* The events of evs that OutputGateway has subscribed to.
ForOutput(evs) == SelectSeq(evs, LAMBDA e : OutputSubscriptions[e.type] # << >>)

\* The handler tasks of OutputGateway created in the step.
NewOutTasks == SubSeq(tasks'["out_send"], Len(tasks["out_send"]) + 1, Len(tasks'["out_send"]))

\* C25: the events of a turn are published in the order the generator
\* enqueued the items, and their frames reach the websocket in that order:
\* the queue is only changed by appending an item, by the consumer taking
\* its head, or by emptying it; for an item the TTSChunkGenerated event is
\* published before the TTSResponseUpdate event; a handler task of
\* OutputGateway is created for each event in the order published; these
\* tasks write in the order created, each the frame of its own event and
\* nothing else writes; so in a run of one turn no binary or update_resp
\* frame is written after the finish_resp frame.
C25_TurnOrderKept ==
    /\ [][/\ tts_queue' # tts_queue
             => \/ tts_queue' = << >>
                \/ /\ Len(tts_queue') = Len(tts_queue) + 1
                   /\ SubSeq(tts_queue', 1, Len(tts_queue)) = tts_queue
                \/ /\ tts_queue' = Tail(tts_queue)
                   /\ \E t \in TasksOf({ "cons" }) :
                         Running(t) /\ Next_(t).pc = "item" /\ Next_(t).item = Head(tts_queue)
          /\ \A i, j \in DOMAIN published' :
                (published'[i].type = "tts.response_update"
                   /\ published'[j].type = "tts.chunk_generated") => j < i
          /\ Len(NewOutTasks) = Len(ForOutput(published'))
          /\ \A i \in DOMAIN NewOutTasks : NewOutTasks[i].arg = ForOutput(published')[i]
          /\ \A t \in TasksOf({ "out_send" }) :
                (Running(t) /\ Next_(t) # Me(t)) => sent' = Append(sent, FrameOf(Me(t).arg))
          /\ (\A t \in TasksOf({ "out_send" }) : ~(Running(t) /\ Next_(t) # Me(t)))
                => sent' = sent]_vars
    /\ [](\A i, j \in DOMAIN tasks["out_send"] :
             (i < j /\ tasks["out_send"][j].st = "done") => tasks["out_send"][i].st = "done")
    /\ [](Len(tasks["tts_final"]) <= 1
            => \A i, j \in DOMAIN sent :
                  (i < j /\ sent[i].action = "finish_resp")
                  => sent[j].action \notin { "binary", "update_resp" })

\* C25 witness: in a run of one turn the frames of a chunk, of a response
\* update and of the finish have been written, in this order.
C25_Witness ==
    /\ Len(tasks["tts_final"]) = 1
    /\ \E i, j, k \in DOMAIN sent :
          /\ i < j /\ j < k
          /\ sent[i].action = "binary"
          /\ sent[j] = [action |-> "update_resp", text |-> << "a" >>]
          /\ sent[k] = [action |-> "finish_resp", text |-> << "a" >>]

\* The frames of s with the given action.
FramesOf(s, action) == SelectSeq(s, LAMBDA f : f.action = action)

\* The place of the first frame with the action in s (0: none), of the last.
FirstOf(s, action) ==
    IF FramesOf(s, action) = << >> THEN 0
    ELSE CHOOSE i \in DOMAIN s :
            s[i].action = action /\ \A j \in 1..(i - 1) : s[j].action # action
LastOf(s, action) ==
    IF FramesOf(s, action) = << >> THEN 0
    ELSE CHOOSE i \in DOMAIN s :
            s[i].action = action /\ \A j \in (i + 1)..Len(s) : s[j].action # action

\* The client has sent its utterance and everything it set off has come to
\* rest: nothing is scheduled, the handlers, the generator and the finish
\* task have ended, the executor holds no call, the queue is empty.
CleanTurnOver ==
    /\ Len(tasks["gw_msg"]) = 2
    /\ Quiescent
    /\ \A t \in TasksOf(Kinds \ { "cons", "asr_cons" }) : Me(t).st = "done"
    /\ \A t \in TasksOf({ "cons", "asr_cons" }) : Me(t).st = "done" \/ Me(t).pc \in { "get", "sleep" }
    /\ tts_queue = << >>
    /\ tasks["gen"] # << >>

\* C26: after a clean turn the client has received at least one update_asr,
\* then exactly one finish_asr, then at least one update_resp and exactly
\* one finish_resp, and at least one binary frame; finish_asr was written
\* before the first update_resp.
C26_CleanTurnFrames ==
    CleanTurnOver
    => /\ Len(FramesOf(sent, "update_asr")) >= 1
       /\ Len(FramesOf(sent, "finish_asr")) = 1
       /\ Len(FramesOf(sent, "update_resp")) >= 1
       /\ Len(FramesOf(sent, "finish_resp")) = 1
       /\ Len(FramesOf(sent, "binary")) >= 1
       /\ LastOf(sent, "update_asr") < FirstOf(sent, "finish_asr")
       /\ FirstOf(sent, "finish_asr") < FirstOf(sent, "update_resp")
       /\ LastOf(sent, "update_resp") < FirstOf(sent, "finish_resp")

\* C27: errors are contained to the turn.  After a recognizer call has
\* raised, the handler of the next VADSpeechStart returns with
\* accumulated_text, the cache and the buffer empty and a consumer it has
\* created running.  After a pipeline has raised, the handler of the next
\* ASRResultFinal (the client has not begun another utterance meanwhile)
\* returns with a generator it has created, a consumer alive and running,
\* is_paused false and a task id above the ids of all generators that have
\* ended and of all events published; and when that turn has come to rest
\* with text produced, its TTSResponseFinish has been published.
C27_ErrorsContained ==
    /\ [][/\ \A t \in TasksOf({ "asr_start" }) :
               (Running(t) /\ Me(t).pc = "a_stopped" /\ Next_(t) # Me(t) /\ last_call.raised)
               => /\ accumulated_text' = << >>
                  /\ asr_cache' = "empty"
                  /\ audio_buffer' = << >>
                  /\ asr_running'
                  /\ asr_consumer_task' \notin TasksOf({ "asr_cons" })
                  /\ Alive(asr_consumer_task)'
          /\ \A t \in TasksOf({ "tts_final" }) :
               (/\ Running(t) /\ Me(t).pc = "spawn" /\ Next_(t) # Me(t)
                /\ \E e \in gen_ended : e[3] = "raised"
                /\ Len(tasks["tts_vad"]) = t[2])
               => /\ tts_gen_task' \notin TasksOf({ "gen" })
                  /\ Alive(tts_gen_task)'
                  /\ Alive(consumer_task)'
                  /\ tts_running'
                  /\ ~is_paused'
                  /\ current_task_id' > lastTid
                  /\ \A e \in gen_ended : e[1] < current_task_id']_vars
    /\ []((/\ TurnSettled /\ ~is_paused /\ tts_running
           /\ \E e \in gen_ended : e[3] = "raised" /\ e[1] < current_task_id
           /\ \E e \in gen_ended : e[1] = current_task_id /\ e[2])
          => \E i \in DOMAIN finished : finished[i] = current_task_id)

\* C27 witness: a recognizer call for the first frame, a frame of the first
\* utterance, has raised and the handler of the next
\* VADSpeechStart has started the consumer that runs now; a pipeline has
\* raised and the handler of the next ASRResultFinal has started the turn
\* whose TTSResponseFinish has been published.
C27_Witness ==
    /\ last_call.raised /\ last_taken = 1
    /\ Len(tasks["asr_start"]) = 2 /\ tasks["asr_start"][2].st = "done"
    /\ \E e \in gen_ended : e[3] = "raised" /\ e[1] < current_task_id
    /\ Len(tasks["tts_final"]) = 2 /\ tasks["tts_final"][2].st = "done"
    /\ \E i \in DOMAIN finished : finished[i] = current_task_id
    /\ TurnSettled /\ ~is_paused /\ tts_running

\* The k-th consumer waits in get() on the queue.
WaitsInGet(k) ==
    /\ k \in DOMAIN tasks["cons"]
    /\ tasks["cons"][k].pc = "get" /\ tasks["cons"][k].st = "wait"

\* C28: the consumer never blocks for ever.  As long as the consumer is
\* alive and running and the TTS is not paused, items do not stay in the
\* queue: the queue is emptied (every item taken, and its events published
\* in the same callback unless it is stale), or a pause or a reset
\* intervenes; and a consumer that waits in get() does not wait for ever:
\* an item or the timeout brings it back to the check at the top of its loop.
C28_ConsumerNeverBlocks ==
    /\ (Alive(consumer_task) /\ tts_running /\ ~is_paused /\ tts_queue # << >>)
          ~> (tts_queue = << >> \/ is_paused \/ ~tts_running \/ ~Alive(consumer_task))
    /\ \A k \in 1..MaxConsumers : WaitsInGet(k) ~> ~WaitsInGet(k)
    /\ [][\A t \in TasksOf({ "cons" }) :
             (Running(t) /\ Me(t).pc = "item" /\ Next_(t) # Me(t) /\ ~IsStale(Me(t).item))
             => published' = ItemEvents(Me(t).item, Me(t).txt)]_vars

\* C28 witness: the timeout of get() has expired for a consumer waiting on
\* an empty queue, running and not paused: it is scheduled to go back to the
\* top of its loop.
C28_Witness ==
    \E t \in TasksOf({ "cons" }) :
        /\ Me(t).pc = "get" /\ Me(t).timeout /\ Me(t).st = "ready"
        /\ t = consumer_task /\ tts_running /\ ~is_paused /\ tts_queue = << >>

C30_SentinelConsumed ==
    (/\ published = FinishAsrProcessing
     /\ segment = "ending")
    => \A i \in 1 .. Len(audio_buffer) : ~audio_buffer[i].is_final

C32_PauseOnly ==
    [][/\ \A t \in TasksOf({ "tts_vad" }) :
             (Running(t) /\ Next_(t) # Me(t))
             => /\ is_paused'
                /\ published' = << Event("tts.paused", current_task_id, current_text) >>
                /\ tts_queue' = tts_queue /\ current_task_id' = current_task_id
                /\ tts_gen_task' = tts_gen_task /\ consumer_task' = consumer_task
                /\ tasks'["gen"] = tasks["gen"] /\ tasks'["cons"] = tasks["cons"]
       /\ (is_paused /\ ~is_paused')
             => \E t \in TasksOf(ResetKinds) :
                   Running(t) /\ Me(t).pc = ResetEntry(t) /\ Next_(t) # Me(t)
       /\ \A t \in TasksOf({ "cons" }) :
             (/\ Running(t) /\ Me(t).pc = "item" /\ Next_(t) # Me(t)
              /\ pauses > 0 /\ ~is_paused)
             => published' = << >>]_vars

\* C33: handle_message_loop returns when receive() raises, be it
\* WebSocketDisconnect or another exception, and only then: an exception
\* reaches the loop from receive() alone, and the handling of a received
\* message, whether it goes through or raises, leaves the loop waiting in
\* receive() for the next message.
C33_LoopEndsOnReadOnly ==
    /\ [][\A t \in TasksOf({ "msg_loop" }) :
             /\ (Running(t) /\ Next_(t) # Me(t)
                    /\ Me(t).pc \in { "raise_disconnect", "raise_error" })
                => /\ closed' /\ Next_(t).st = "done"
                   /\ msg_loop'.exit = IF Me(t).pc = "raise_disconnect"
                                        THEN "disconnect" ELSE "error"
             /\ (Running(t) /\ Next_(t) # Me(t) /\ Me(t).pc = "process")
                => /\ ~closed' /\ msg_loop'.exit = "none"
                   /\ Next_(t).st = "wait"
                   /\ Next_(t).pc \in { "receive", "receive_closed" }
                   /\ msg_loop'.failed \in { msg_loop.failed, msg_loop.failed + 1 }
             /\ (/\ Next_(t).pc \in { "raise_disconnect", "raise_error" }
                 /\ Me(t).pc \notin { "raise_disconnect", "raise_error" })
                => /\ Me(t).st = "wait"
                   /\ Me(t).pc \in { "receive", "receive_closed" }]_vars
    /\ [](closed <=> \A t \in TasksOf({ "msg_loop" }) : Me(t).st = "done")
    /\ [](closed <=> msg_loop.exit # "none")

\* C33 witness: the handling of a message has raised, and the loop has read
\* and published a later text message.
C33_Witness ==
    /\ msg_loop.failed >= 1 /\ ~closed
    /\ published # << >> /\ published[1].type = "websocket.message_received"
    /\ \E t \in TasksOf({ "msg_loop" }) : Me(t).st = "wait" /\ Me(t).pc = "receive"

\* C34: a consumer publishes TTSResponseUpdate for a current item exactly
\* when the item's resp_text differs from the text it sent last; no
\* TTSResponseUpdate repeats the task_id and the text of the one published
\* before it; and current_text changes only to the text of the update just
\* published or, in reset_tts, to the empty text.
C34_UpdateOnChange ==
    [][/\ \A t \in TasksOf({ "cons" }) :
             (Running(t) /\ Me(t).pc = "item" /\ Next_(t) # Me(t))
             => LET update == \E i \in 1 .. Len(published') :
                                 published'[i].type = "tts.response_update"
                IN  /\ ~IsStale(Me(t).item)
                       => (update <=> Me(t).item.resp_text # Me(t).txt)
                    /\ update
                       => /\ ~(/\ last_update.task_id = current_task_id
                               /\ last_update.text = Me(t).item.resp_text)
                          /\ current_text' = Me(t).item.resp_text
       /\ current_text' # current_text
             => \/ \E i \in 1 .. Len(published') :
                      published'[i].type = "tts.response_update"
                \/ current_text' = EmptyText]_vars

\* C35: at most one ASR consumer task is alive, and an alive ASR consumer
\* task is the one ASRManager.consumer_task refers to.
C35_OneAsrConsumer ==
    /\ Cardinality({ t \in TasksOf({ "asr_cons" }) : Alive(t) }) <= 1
    /\ \A t \in TasksOf({ "asr_cons" }) : Alive(t) => t = asr_consumer_task

\* C36: the byte ranges a consumer run hands to the recognizer in its
\* successive flushes are disjoint and contiguous: a flush hands over the
\* bytes from processed_bytes on, and a run that goes on after a flush has
\* set processed_bytes to the end of the range it handed over.
C36_EachByteOnce ==
    [][\A t \in TasksOf({ "asr_cons" }) :
          (/\ Running(t) /\ Next_(t) # Me(t)
           /\ \/ Me(t).pc = "flush"
              \/ Me(t).pc = "finally" /\ Me(t).acc > Me(t).proc)
          => /\ last_call'.audio.lo = Me(t).proc
             /\ last_call'.audio.hi > last_call'.audio.lo
             /\ Next_(t).st # "done" => Next_(t).proc = last_call'.audio.hi]_vars

\* C37: the reset that a vad_speech_start message triggers discards no audio
\* frame the client sent after that message: in a turn whose frames all
\* follow vad_speech_start, the handler of VADSpeechStart finds audio_buffer
\* empty when _reset_asr clears it.
C37_ResetKeepsSegmentFrames ==
    [][\A t \in TasksOf({ "asr_start" }) :
          (Running(t) /\ Me(t).pc = "a_stopped" /\ Next_(t) # Me(t))
          => audio_buffer = << >>]_vars

\* C38: every TTSChunkGenerated, TTSResponseUpdate and TTSResponseFinish
\* event carries, at the moment it is published, the task_id that
\* current_task_id holds.
C38_OutputCarriesCurrentId ==
    [][\A i \in 1 .. Len(published') :
          published'[i].type \in { "tts.chunk_generated", "tts.response_update",
                                    "tts.response_finish" }
          => published'[i].task_id = current_task_id']_vars

\* C39: at most one TTS generator task and at most one TTS consumer task
\* are alive, and an alive one is the task tts_gen_task, respectively
\* consumer_task, refers to.
C39_OneGeneratorOneConsumer ==
    /\ Cardinality({ t \in TasksOf({ "gen" }) : Alive(t) }) <= 1
    /\ Cardinality({ t \in TasksOf({ "cons" }) : Alive(t) }) <= 1
    /\ \A t \in TasksOf({ "gen" }) : Alive(t) => t = tts_gen_task
    /\ \A t \in TasksOf({ "cons" }) : Alive(t) => t = consumer_task

\* C40: the task id a generator reads when it first runs is the id its own
\* handler produced; every item it enqueues carries that id; and a generator
\* whose cancellation was requested enqueues nothing and ends.
C40_GeneratorKeepsItsTurn ==
    [][\A t \in TasksOf({ "gen" }) :
          (Running(t) /\ Next_(t) # Me(t))
          => /\ (Me(t).pc = "start" /\ ~Me(t).cancel)
                => Next_(t).tid = Me(t).arg.task_id
             /\ Len(tts_queue') > Len(tts_queue)
                => tts_queue'[Len(tts_queue')].task_id = Me(t).arg.task_id
             /\ Me(t).cancel
                => tts_queue' = tts_queue /\ Next_(t).st = "done"]_vars
====
